---- MODULE Spec2Model ----
(***************************************************************************)
(* Front end of the CM compiler.                                           *)
(*   - Lexical/lexical.py : class Scanner and the driver loop of main()    *)
(*   - Scanner/compiler.py: class Parser (predictive recursive descent)    *)
(* A character is a one-character string, a lexeme or a source text is a   *)
(* sequence of characters.  Python's None is NoChar for a character,       *)
(* NoLine for a line number and NoToken for Scanner.last_token.            *)
(***************************************************************************)
EXTENDS Integers, Sequences, FiniteSets, TLC

VARIABLES
    src,            \* Scanner.src: the source text
    scanner,        \* the other fields of the Scanner object
    lines_output,   \* main(): dict lineno -> list of token representations
    tok,            \* the token returned by the last get_next_token call
    returned,       \* history: every token returned so far, in call order
    pc,             \* main(): "loop" in the while-loop, "in_call" inside a recursive
                    \* get_next_token call, "done" after break, "raised" after an
                    \* uncaught exception
    frame,          \* get_next_token activations on the call stack (0 between calls)
    extra,          \* number of get_next_token calls made after main()'s loop
    tokens,         \* Parser.tokens
    parser          \* the Parser object (i, errors), the call stack of its grammar
                    \* functions and the tree returned by parse()

vars == <<src, scanner, lines_output, tok, returned, pc, frame, extra, tokens, parser>>

scanVars == <<src, scanner, lines_output, tok, returned, pc, frame, extra>>
parseVars == <<tokens, parser>>

-----------------------------------------------------------------------------
(* Bounds of the model *)

\* longest source text
MaxLen == 4

\* calls of get_next_token made by a consumer after the driver loop has ended
MaxExtraCalls == 2

\* the characters the short source texts are drawn from: two letters (so that
\* the keyword "if" and identifiers occur), underscore, two digits, an illegal
\* character, blank, newline, form feed, and the symbol bytes / * =
Alphabet == {"i", "f", "_", "0", "1", "@", " ", "\n", "\f", "/", "*", "="}

-----------------------------------------------------------------------------
(* Token kinds, keyword / symbol / whitespace sets *)

KEYWORD == "KEYWORD"
ID == "ID"
NUM == "NUM"
SYMBOL == "SYMBOL"
EOF == "EOF"
ERROR == "ERROR"

TokenType == {KEYWORD, ID, NUM, SYMBOL, EOF, ERROR}

KEYWORDS == { <<"i","f">>, <<"e","l","s","e">>, <<"v","o","i","d">>,
              <<"i","n","t">>, <<"f","o","r">>, <<"b","r","e","a","k">>,
              <<"r","e","t","u","r","n">> }

\* sorted(KEYWORDS)
SortedKeywords == << <<"b","r","e","a","k">>, <<"e","l","s","e">>, <<"f","o","r">>,
                     <<"i","f">>, <<"i","n","t">>, <<"r","e","t","u","r","n">>,
                     <<"v","o","i","d">> >>

SYMBOLS == {";", ":", ",", "[", "]", "(", ")", "{", "}", "+", "-", "*", "/", "=", "<", "=="}

\* "VT" stands for the vertical tab '\v'
WHITESPACE == {" ", "\n", "\r", "\t", "VT", "\f"}

NoChar == ""
NoLine == 0
NoToken == [type |-> "None", lexeme |-> <<>>, end_pos |-> -1, lineno |-> NoLine]

\* str.isalpha / str.isdigit / str.isalnum on ASCII
Letters == {"a","b","c","d","e","f","g","h","i","j","k","l","m","n","o","p","q",
            "r","s","t","u","v","w","x","y","z",
            "A","B","C","D","E","F","G","H","I","J","K","L","M","N","O","P","Q",
            "R","S","T","U","V","W","X","Y","Z"}
Digits == {"0","1","2","3","4","5","6","7","8","9"}

isalpha(c) == c \in Letters
isdigit(c) == c \in Digits
isalnum(c) == isalpha(c) \/ isdigit(c)

\* the condition "self.peek().isalnum() or self.peek() == '_'"
IsIdChar(c) == isalnum(c) \/ c = "_"

-----------------------------------------------------------------------------
(* Scanner: character access *)

Length == Len(src)

\* Python slice self.src[p:q] (positions are 0-based)
Slice(p, q) == SubSeq(src, p + 1, q)

\* the character at 0-based position p, NoChar at or past the end
CharAt(p) == IF p >= Length \/ p < 0 THEN NoChar ELSE src[p + 1]

peek(st, offset) == CharAt(st.pos + offset)

\* advance with a form feed counted as a line break as well
advance_FormFeedEndsLine(st) ==
    IF st.pos >= Length THEN st
    ELSE [st EXCEPT !.pos = st.pos + 1,
                    !.lineno = IF src[st.pos + 1] \in {"\n", "\f"} THEN st.lineno + 1
                               ELSE st.lineno]

\* advance that counts no line break
advance_NewlineNotCounted(st) ==
    IF st.pos >= Length THEN st ELSE [st EXCEPT !.pos = st.pos + 1]

\* one call of advance(): the position moves by one, a newline bumps lineno
advance(st) ==
    IF st.pos >= Length THEN st
    ELSE [st EXCEPT !.pos = st.pos + 1,
                    !.lineno = IF src[st.pos + 1] = "\n" THEN st.lineno + 1
                               ELSE st.lineno]

\* advance() repeated until the position is q
RECURSIVE AdvanceTo(_, _)
AdvanceTo(st, q) == IF st.pos >= q \/ st.pos >= Length THEN st
                    ELSE AdvanceTo(advance(st), q)

\* log_error that puts the new record in front of the list
log_error_AtFront(st, lineno, thrown, message) ==
    [st EXCEPT !.errors_found = TRUE,
               !.lex_errors = <<<<lineno, thrown, message>>>> \o st.lex_errors]

log_error(st, lineno, thrown, message) ==
    [st EXCEPT !.errors_found = TRUE,
               !.lex_errors = Append(st.lex_errors, <<lineno, thrown, message>>)]

-----------------------------------------------------------------------------
(* Scanner: symbol table, an insertion-ordered sequence of entries *)

InTable(table, lexeme) == \E k \in 1..Len(table) : table[k].lexeme = lexeme

IndexOf(table, lexeme) == CHOOSE k \in 1..Len(table) : table[k].lexeme = lexeme

\* the sequence s without its k-th element
RemoveAt(s, k) == SubSeq(s, 1, k - 1) \o SubSeq(s, k + 1, Len(s))

\* _initialize_symbol_table_with_keywords
InitialSymbolTable ==
    [k \in 1..Len(SortedKeywords) |->
        [lexeme |-> SortedKeywords[k], class |-> KEYWORD, first_seen |-> NoLine]]

\* add_symbol that makes a new entry also for a lexeme that has one
add_symbol_AlwaysAppends(table, lexeme, tokclass, first_seen_line) ==
    Append(table, [lexeme |-> lexeme, class |-> tokclass, first_seen |-> first_seen_line])

add_symbol(table, lexeme, tokclass, first_seen_line) ==
    IF InTable(table, lexeme)
    THEN LET k == IndexOf(table, lexeme) IN
         IF table[k].class = ID /\ table[k].first_seen = NoLine /\ first_seen_line # NoLine
         THEN [table EXCEPT ![k].first_seen = first_seen_line]
         ELSE table
    ELSE Append(table, [lexeme |-> lexeme, class |-> tokclass, first_seen |-> first_seen_line])

remove_id_from_symbol_table_if_present(table, lexeme, lineno) ==
    IF InTable(table, lexeme) /\ table[IndexOf(table, lexeme)].class = ID
    THEN RemoveAt(table, IndexOf(table, lexeme))
    ELSE table

-----------------------------------------------------------------------------
(* Scanner: panic mode *)

_is_token_start(ch) ==
    \/ ch = NoChar
    \/ ch \in WHITESPACE
    \/ isalpha(ch) \/ isdigit(ch) \/ ch = "_" \/ ch \in SYMBOLS \/ ch \in {"/", "*"}

\* a panic loop that consumes nothing
PanicEnd_ConsumesNothing(p) == p

\* the position at which _panic_consume_until_token_start stops when started at p
RECURSIVE PanicEnd(_)
PanicEnd(p) == IF _is_token_start(CharAt(p)) THEN p ELSE PanicEnd(p + 1)

\* the position after the maximal run of identifier characters starting at p
RECURSIVE IdRunEnd(_)
IdRunEnd(p) == IF CharAt(p) # NoChar /\ IsIdChar(CharAt(p)) THEN IdRunEnd(p + 1) ELSE p

\* the position after the maximal run of digits starting at p
RECURSIVE DigitRunEnd(_)
DigitRunEnd(p) == IF CharAt(p) # NoChar /\ isdigit(CharAt(p)) THEN DigitRunEnd(p + 1) ELSE p

\* the look-back loop of the illegal-character case: the start of the maximal
\* run of identifier characters that ends right before position p
RECURSIVE LeftStart(_)
LeftStart(p) == IF p - 1 >= 0 /\ IsIdChar(CharAt(p - 1)) THEN LeftStart(p - 1) ELSE p

\* where a line comment's body ends: at '\n', '\f' or the end of the source
RECURSIVE LineCommentEnd(_)
LineCommentEnd(p) ==
    IF CharAt(p) # NoChar /\ CharAt(p) \notin {"\n", "\f"} THEN LineCommentEnd(p + 1) ELSE p

\* the block-comment loop started at p: the position of the closing "*/", or
\* Length if the source ends first
RECURSIVE BlockCommentClose(_)
BlockCommentClose(p) ==
    IF p >= Length THEN Length
    ELSE IF CharAt(p) = "*" /\ CharAt(p + 1) = "/" THEN p
    ELSE BlockCommentClose(p + 1)

-----------------------------------------------------------------------------
(* Scanner.get_next_token.  One activation of the method runs its while     *)
(* loop until it returns a token ("return"), or has handled a malformed      *)
(* number or an illegal character and calls itself ("recurse"), or an        *)
(* exception leaves it ("raise").  Each case below is one branch of the      *)
(* loop body; "continue" goes round the loop.  The fields g_blank and        *)
(* g_err_span of the scanner record are history: the positions consumed as   *)
(* whitespace or comment, and for each error record the source span          *)
(* <<first, last + 1>> that was consumed for it.                             *)

Token(type, lexeme, line) == [type |-> type, lexeme |-> lexeme, line |-> line]

NoTok == Token("None", <<>>, NoLine)

Step(st, t, next) == [st |-> st, tok |-> t, next |-> next]

\* CPython's default recursion limit (sys.getrecursionlimit())
RecursionLimit == 1000

\* The n-th nested activation of get_next_token runs at stack depth n + 2
\* (below it: the module and main()).  Handling an error, it calls
\* _panic_consume_until_token_start, which calls peek, at depth n + 4.
RecursionExceeded(n) == n + 4 > RecursionLimit

\* EndOfInput with the EOF token placed on the first line
EndOfInput_OnFirstLine(st) ==
    Step([st EXCEPT !.last_token = NoToken], Token(EOF, <<"E","O","F">>, 1), "return")

\* the final "return (TokenType.EOF, "EOF", self.lineno)" after the loop
EndOfInput(st) ==
    Step([st EXCEPT !.last_token = NoToken], Token(EOF, <<"E","O","F">>, st.lineno), "return")

\* "*/" outside a comment taken as the symbol "*": one byte read, a token returned
StrayClosingComment_StarIsASymbol(st) ==
    LET st1 == advance(st)
    IN Step([st1 EXCEPT !.last_token =
                 [type |-> SYMBOL, lexeme |-> <<"*">>, end_pos |-> st1.pos, lineno |-> st1.lineno]],
            Token(SYMBOL, <<"*">>, st1.lineno), "return")

\* "*/" outside a comment
StrayClosingComment(st) ==
    LET start_ln == st.lineno
        st1 == advance(advance(st))
        st2 == log_error(st1, start_ln, <<"*", "/">>, "Stray closing comment")
    IN Step([st2 EXCEPT !.last_token = NoToken,
                        !.g_err_span = Append(@, <<st.pos, st1.pos>>)],
            NoTok, "continue")

\* 1. whitespace
Whitespace(st) ==
    Step([advance(st) EXCEPT !.g_blank = @ \cup {st.pos}], NoTok, "continue")

\* 2. "//": a line comment
LineComment(st) ==
    LET q == LineCommentEnd(st.pos + 2)
        st1 == AdvanceTo(st, q)
    IN Step([st1 EXCEPT !.last_token = NoToken,
                        !.g_blank = @ \cup (st.pos .. q - 1)],
            NoTok, "continue")

UnclosedThrown == <<"/","*"," ","U","n","c","l","o","s","e","d"," ",".",".",".">>

\* BlockComment with the open comment reported on the line where the source ends
BlockComment_ReportedOnLastLine(st) ==
    LET st0 == advance(advance(st))
        q == BlockCommentClose(st0.pos)
        comment_closed == q < Length
        st1 == AdvanceTo(st0, IF comment_closed THEN q + 2 ELSE Length)
        st2 == [st1 EXCEPT !.g_blank = @ \cup (st.pos .. st1.pos - 1)]
    IN IF ~comment_closed
       THEN LET st3 == log_error(st2, st1.lineno, UnclosedThrown, "Open comment at EOF")
            IN Step([st3 EXCEPT !.last_token = NoToken,
                                !.g_err_span = Append(@, <<st.pos, st1.pos>>)],
                    Token(EOF, <<"E","O","F">>, st1.lineno), "return")
       ELSE Step([st2 EXCEPT !.last_token = NoToken], NoTok, "continue")

\* 2. "/*": a block comment, closed or running to the end of the source
BlockComment(st) ==
    LET st0 == advance(advance(st))
        start_line == st0.lineno
        q == BlockCommentClose(st0.pos)
        comment_closed == q < Length
        st1 == AdvanceTo(st0, IF comment_closed THEN q + 2 ELSE Length)
        st2 == [st1 EXCEPT !.g_blank = @ \cup (st.pos .. st1.pos - 1)]
    IN IF ~comment_closed
       THEN LET st3 == log_error(st2, start_line, UnclosedThrown, "Open comment at EOF")
            IN Step([st3 EXCEPT !.last_token = NoToken,
                                !.g_err_span = Append(@, <<st.pos, st1.pos>>)],
                    Token(EOF, <<"E","O","F">>, st1.lineno), "return")
       ELSE Step([st2 EXCEPT !.last_token = NoToken], NoTok, "continue")

\* a one-character symbol: '/' alone, '=' alone, or "char in SYMBOLS"
SingleSymbol(st) ==
    LET st1 == advance(st)
        lex == <<CharAt(st.pos)>>
    IN Step([st1 EXCEPT !.last_token =
                 [type |-> SYMBOL, lexeme |-> lex, end_pos |-> st1.pos, lineno |-> st1.lineno]],
            Token(SYMBOL, lex, st1.lineno), "return")

\* DoubleEquals with the lexeme cut to its first character
DoubleEquals_OneCharLexeme(st) ==
    LET st1 == advance(advance(st))
        lexeme == <<CharAt(st.pos)>>
    IN Step([st1 EXCEPT !.last_token =
                 [type |-> SYMBOL, lexeme |-> lexeme, end_pos |-> st1.pos, lineno |-> st1.lineno]],
            Token(SYMBOL, lexeme, st1.lineno), "return")

\* 5. "=="
DoubleEquals(st) ==
    LET st1 == advance(advance(st))
        lexeme == <<CharAt(st.pos), CharAt(st.pos + 1)>>
    IN Step([st1 EXCEPT !.last_token =
                 [type |-> SYMBOL, lexeme |-> lexeme, end_pos |-> st1.pos, lineno |-> st1.lineno]],
            Token(SYMBOL, lexeme, st1.lineno), "return")

\* IdentifierOrKeyword without the keyword test: every run is an ID
IdentifierOrKeyword_AlwaysID(st) ==
    LET start_ln == st.lineno
        st1 == AdvanceTo(st, IdRunEnd(st.pos))
        lexeme == Slice(st.pos, st1.pos)
    IN Step([st1 EXCEPT
               !.symbol_table = add_symbol(@, lexeme, ID, start_ln),
               !.last_token = [type |-> ID, lexeme |-> lexeme,
                               end_pos |-> st1.pos, lineno |-> start_ln]],
            Token(ID, lexeme, start_ln), "return")

\* 3. identifiers and keywords
IdentifierOrKeyword(st) ==
    LET start_ln == st.lineno
        st1 == AdvanceTo(st, IdRunEnd(st.pos))
        lexeme == Slice(st.pos, st1.pos)
    IN IF lexeme \in KEYWORDS
       THEN Step([st1 EXCEPT
                    !.symbol_table = add_symbol(@, lexeme, KEYWORD, NoLine),
                    !.last_token = [type |-> KEYWORD, lexeme |-> lexeme,
                                    end_pos |-> st1.pos, lineno |-> start_ln]],
                 Token(KEYWORD, lexeme, start_ln), "return")
       ELSE Step([st1 EXCEPT
                    !.symbol_table = add_symbol(@, lexeme, ID, start_ln),
                    !.last_token = [type |-> ID, lexeme |-> lexeme,
                                    end_pos |-> st1.pos, lineno |-> start_ln]],
                 Token(ID, lexeme, start_ln), "return")

\* the shared tail of the two malformed-number cases, entered after the first
\* digits (up to position p) have been consumed: consume the identifier-like
\* rest, log, panic, extend the logged text, and call get_next_token again
MalformedNumber(st, n, p) ==
    LET start_line == st.lineno
        st1 == AdvanceTo(st, IdRunEnd(p))
        thrown == Slice(st.pos, st1.pos)
        st2 == [log_error(st1, start_line, thrown, "Malformed number")
                   EXCEPT !.g_err_span = Append(@, <<st.pos, st1.pos>>)]
        st3 == AdvanceTo(st2, PanicEnd(st2.pos))
        extra_ == Slice(st2.pos, st3.pos)
        k == Len(st3.lex_errors)
        st4 == IF extra_ # <<>>
               THEN [st3 EXCEPT !.lex_errors[k] = <<start_line, thrown \o extra_, "Malformed number">>,
                                !.g_err_span[k] = <<st.pos, st3.pos>>]
               ELSE st3
    IN IF RecursionExceeded(n)
       THEN Step(st2, NoTok, "raise")
       ELSE Step([st4 EXCEPT !.last_token = NoToken], NoTok, "recurse")

\* 4. numbers
Number(st, n) ==
    LET start_line == st.lineno
        st1 == advance(st)
    IN IF CharAt(st.pos) = "0" /\ peek(st1, 0) # NoChar /\ isdigit(peek(st1, 0))
       THEN MalformedNumber(st, n, st1.pos)
       ELSE LET st2 == AdvanceTo(st1, DigitRunEnd(st1.pos))
                lexeme == Slice(st.pos, st2.pos)
            IN IF peek(st2, 0) # NoChar /\ (isalpha(peek(st2, 0)) \/ peek(st2, 0) = "_")
               THEN MalformedNumber(st, n, st2.pos)
               ELSE Step([st2 EXCEPT !.last_token =
                            [type |-> NUM, lexeme |-> lexeme,
                             end_pos |-> st2.pos, lineno |-> start_line]],
                         Token(NUM, lexeme, start_line), "return")

\* Adjacent with the end position compared one byte off
Adjacent_EndPosOffByOne(st, start_pos, left) ==
    /\ st.last_token # NoToken
    /\ st.last_token.type = ID
    /\ st.last_token.end_pos = start_pos + 1
    /\ left # <<>>
    /\ st.last_token.lexeme = left

\* an adjacency test that is content with any identifier as the last token
Adjacent_AnyPreviousID(st, start_pos, left) ==
    /\ st.last_token # NoToken
    /\ st.last_token.type = ID

\* an adjacency test that every illegal character passes
Adjacent_Always(st, start_pos, left) == TRUE

\* the adjacency test of the illegal-character case
Adjacent(st, start_pos, left) ==
    /\ st.last_token # NoToken
    /\ st.last_token.type = ID
    /\ st.last_token.end_pos = start_pos
    /\ left # <<>>
    /\ st.last_token.lexeme = left

\* 6. an illegal character
IllegalCharacter(st, n) ==
    LET start_ln == st.lineno
        start_pos == st.pos
        left == Slice(LeftStart(start_pos), start_pos)
        st1 == advance(st)
        st2 == AdvanceTo(st1, IdRunEnd(st1.pos))
        right == Slice(st1.pos, st2.pos)
        thrown == left \o <<CharAt(start_pos)>> \o right
        adjacent == Adjacent(st, start_pos, left)
        st3 == IF adjacent
               THEN [st2 EXCEPT
                       !._remove_last_token = TRUE,
                       !._removed_last_token_lexeme = st.last_token.lexeme,
                       !._removed_last_token_lineno = st.last_token.lineno,
                       !.symbol_table = remove_id_from_symbol_table_if_present(
                                            @, st.last_token.lexeme, st.last_token.lineno)]
               ELSE st2
        st4 == [log_error(st3, start_ln, thrown, "Illegal character")
                   EXCEPT !.g_err_span = Append(@, <<start_pos - Len(left), st2.pos>>)]
        st5 == AdvanceTo(st4, PanicEnd(st4.pos))
        extra_ == Slice(st4.pos, st5.pos)
        k == Len(st5.lex_errors)
        st6 == IF extra_ # <<>>
               THEN [st5 EXCEPT !.lex_errors[k] = <<start_ln, thrown \o extra_, "Illegal character">>,
                                !.g_err_span[k] = <<start_pos - Len(left), st5.pos>>]
               ELSE st5
    IN IF RecursionExceeded(n)
       THEN Step(st4, NoTok, "raise")
       ELSE Step([st6 EXCEPT !.last_token = NoToken], NoTok, "recurse")

\* one pass through the body of the while loop, in the n-th nested activation
LoopBody(st, n) ==
    LET char == peek(st, 0) IN
    IF char = "*" /\ peek(st, 1) = "/" THEN StrayClosingComment(st)
    ELSE IF char \in WHITESPACE THEN Whitespace(st)
    ELSE IF char = "/"
         THEN IF peek(st, 1) = "/" THEN LineComment(st)
              ELSE IF peek(st, 1) = "*" THEN BlockComment(st)
              ELSE SingleSymbol(st)
    ELSE IF isalpha(char) \/ char = "_" THEN IdentifierOrKeyword(st)
    ELSE IF isdigit(char) THEN Number(st, n)
    ELSE IF char = "=" THEN (IF peek(st, 1) = "=" THEN DoubleEquals(st) ELSE SingleSymbol(st))
    ELSE IF char \in SYMBOLS THEN SingleSymbol(st)
    ELSE IllegalCharacter(st, n)

\* the n-th nested activation of get_next_token, up to its return, its
\* recursive call or its exception
RECURSIVE Activation(_, _)
Activation(st, n) ==
    IF st.pos >= Length THEN EndOfInput(st)
    ELSE LET r == LoopBody(st, n) IN
         IF r.next = "continue" THEN Activation(r.st, n) ELSE r

-----------------------------------------------------------------------------
(* main(): the driver loop *)

Max(S) == CHOOSE x \in S : \A y \in S : y <= x

\* f"({token_type}, {token_string})": the text determines the pair and back
token_repr(type, lexeme) == <<type, lexeme>>

\* clear_remove_flag that forgets the lexeme and the line but leaves the flag up
clear_remove_flag_FlagLeftUp(st) ==
    [st EXCEPT !._removed_last_token_lexeme = <<>>,
               !._removed_last_token_lineno = NoLine]

clear_remove_flag(st) ==
    [st EXCEPT !._remove_last_token = FALSE,
               !._removed_last_token_lexeme = <<>>,
               !._removed_last_token_lineno = NoLine]

\* the deletion of lines 396-409 searching from the front of the group: it
\* deletes the earliest (ID, lex) of line ln
Retract_EarliestOccurrence(lo, lex, ln) ==
    IF ln \in DOMAIN lo
    THEN LET hits == {i \in 1..Len(lo[ln]) : lo[ln][i].repr = token_repr(ID, lex)} IN
         IF hits = {} THEN lo
         ELSE LET first == CHOOSE i \in hits : \A k \in hits : i <= k
                  rest == RemoveAt(lo[ln], first) IN
              IF rest = <<>> THEN [k \in DOMAIN lo \ {ln} |-> lo[k]]
              ELSE [lo EXCEPT ![ln] = rest]
    ELSE lo

\* lines 396-409: delete the most recent (ID, lex) of line ln, and the line's
\* key if that leaves it empty
Retract(lo, lex, ln) ==
    IF ln \in DOMAIN lo
    THEN LET hits == {i \in 1..Len(lo[ln]) : lo[ln][i].repr = token_repr(ID, lex)} IN
         IF hits = {} THEN lo
         ELSE LET rest == RemoveAt(lo[ln], Max(hits)) IN
              IF rest = <<>> THEN [k \in DOMAIN lo \ {ln} |-> lo[k]]
              ELSE [lo EXCEPT ![ln] = rest]
    ELSE lo

\* lines 416-420; g_end is history: the scanner position right after the token
AppendToken(lo, t, end_pos) ==
    LET entry == [repr |-> token_repr(t.type, t.lexeme), g_end |-> end_pos] IN
    IF t.line \in DOMAIN lo THEN [lo EXCEPT ![t.line] = Append(@, entry)]
    ELSE [k \in DOMAIN lo \cup {t.line} |-> IF k = t.line THEN <<entry>> ELSE lo[k]]

\* lines 393-420 once get_next_token has returned r.tok
Deliver(r) ==
    LET st == r.st
        lo1 == IF st._remove_last_token
               THEN Retract(lines_output, st._removed_last_token_lexeme,
                            st._removed_last_token_lineno)
               ELSE lines_output
    IN /\ scanner' = (IF st._remove_last_token THEN clear_remove_flag(st) ELSE st)
       /\ tok' = r.tok
       /\ returned' = Append(returned, r.tok)
       /\ frame' = 0
       /\ pc' = (IF r.tok.type = EOF THEN "done" ELSE "loop")
       /\ lines_output' = (IF r.tok.type = EOF THEN lo1
                           ELSE AppendToken(lo1, r.tok, st.pos))

\* what follows the n-th activation: its token goes back to main(), or it
\* calls get_next_token again, or its exception ends the program
Outcome(r, n) ==
    IF r.next = "return" THEN Deliver(r)
    ELSE /\ scanner' = r.st
         /\ frame' = (IF r.next = "recurse" THEN n ELSE 0)
         /\ pc' = (IF r.next = "recurse" THEN "in_call" ELSE "raised")
         /\ UNCHANGED <<tok, returned, lines_output>>

\* one iteration of main()'s while loop, from its call of get_next_token
MainLoop ==
    /\ pc = "loop"
    /\ Outcome(Activation(scanner, 1), 1)
    /\ UNCHANGED <<src, extra, parseVars>>

\* "return self.get_next_token()": the next nested activation
Recurse ==
    /\ pc = "in_call"
    /\ Outcome(Activation(scanner, frame + 1), frame + 1)
    /\ UNCHANGED <<src, extra, parseVars>>

\* a consumer calls get_next_token again after the driver loop has ended
GetNextTokenAgain ==
    /\ pc = "done"
    /\ extra < MaxExtraCalls
    /\ LET r == Activation(scanner, 1) IN
         /\ r.next = "return"
         /\ scanner' = r.st
         /\ tok' = r.tok
         /\ returned' = Append(returned, r.tok)
    /\ extra' = extra + 1
    /\ UNCHANGED <<src, lines_output, pc, frame, parseVars>>

\* Scanner.__init__
NewScanner ==
    [pos |-> 0, lineno |-> 1, errors_found |-> FALSE, lex_errors |-> <<>>,
     symbol_table |-> InitialSymbolTable, last_token |-> NoToken,
     _remove_last_token |-> FALSE, _removed_last_token_lexeme |-> <<>>,
     _removed_last_token_lineno |-> NoLine,
     g_blank |-> {}, g_err_span |-> <<>>]

\* a source with one illegal character more than the call stack can take:
\* "@ @ @ ..." with RecursionLimit - 3 illegal characters
DeepSource == [k \in 1..(2 * (RecursionLimit - 3)) |-> IF k % 2 = 1 THEN "@" ELSE " "]

\* the same with malformed numbers: "00 00 00 ..." with RecursionLimit - 3 of them
DeepNumberSource ==
    [k \in 1..(3 * (RecursionLimit - 3)) |-> IF k % 3 = 0 THEN " " ELSE "0"]

\* longer source texts: the scenarios of the specification
\* spec scenario S1: int x; x = 2 + 3;
S1Source ==
    <<"i", "n", "t", " ", "x", ";", " ", "x", " ", "=", " ", "2", " ", "+", " ", "3",
      ";">>

\* spec scenario S2: int a; a = 007; b = 12abc;
S2Source ==
    <<"i", "n", "t", " ", "a", ";", " ", "a", " ", "=", " ", "0", "0", "7", ";", " ",
      "b", " ", "=", " ", "1", "2", "a", "b", "c", ";">>

\* spec scenario S3: int invalid@x;
S3Source ==
    <<"i", "n", "t", " ", "i", "n", "v", "a", "l", "i", "d", "@", "x", ";">>

\* spec scenario S4: */ /* never ends
S4Source ==
    <<"*", "/", " ", "/", "*", " ", "n", "e", "v", "e", "r", " ", "e", "n", "d", "s">>

\* comments over several lines, a retraction after an earlier occurrence: ab /* c\n d */\nab@ 1\n// e\x0cab == 07_$ if
MixedSource ==
    <<"a", "b", " ", "/", "*", " ", "c", "\n", " ", "d", " ", "*", "/", "\n", "a", "b",
      "@", " ", "1", "\n", "/", "/", " ", "e", "\f", "a", "b", " ", "=", "=", " ", "0",
      "7", "_", "$", " ", "i", "f">>

\* the keywords that the short texts cannot spell, and two near misses: else void for break return For _if
KeywordsSource ==
    <<"e", "l", "s", "e", " ", "v", "o", "i", "d", " ", "f", "o", "r", " ", "b",
      "r", "e", "a", "k", " ", "r", "e", "t", "u", "r", "n", " ", "F", "o", "r",
      " ", "_", "i", "f">>

\* an illegal character that a comment separates from an identifier: ab/**/@ cd// e\n@
SeparatedSource ==
    <<"a", "b", "/", "*", "*", "/", "@", " ", "c", "d", "/", "/", " ", "e", "\n", "@">>

\* an identifier, its retracted second occurrence and a third one, on three lines: i\ni@\ni
ReoccurrenceSource == <<"i", "\n", "i", "@", "\n", "i">>

ScenarioSources ==
    {S1Source, S2Source, S3Source, S4Source, MixedSource, KeywordsSource, SeparatedSource,
     ReoccurrenceSource}

\* every text of at most MaxLen characters over Alphabet
ShortSources == UNION {[1..n -> Alphabet] : n \in 0..MaxLen}

\* main() of lexical.py constructs no Parser
NoParser == [state |-> "idle"]

Init ==
    /\ \/ src \in ShortSources \/ src \in ScenarioSources
       \/ src = DeepSource \/ src = DeepNumberSource
    /\ scanner = NewScanner
    /\ lines_output = <<>>
    /\ tok = NoTok
    /\ returned = <<>>
    /\ pc = "loop"
    /\ frame = 0
    /\ extra = 0
    /\ tokens = <<>>
    /\ parser = NoParser

Next == MainLoop \/ Recurse \/ GetNextTokenAgain

Spec == Init /\ [][Next]_vars

-----------------------------------------------------------------------------
(* Vocabulary of the scanner properties *)

\* the flattening of a sequence of sequences
RECURSIVE Concat(_)
Concat(ss) == IF ss = <<>> THEN <<>> ELSE Head(ss) \o Concat(Tail(ss))

\* the token entries the driver holds, as pairs <<line, index in the line>>
Kept == UNION {{<<ln, i>> : i \in 1..Len(lines_output[ln])} : ln \in DOMAIN lines_output}

KeptEntry(e) == lines_output[e[1]][e[2]]

\* the lexemes that remain as ID tokens in the grouped token output
KeptIdLexemes == {KeptEntry(e).repr[2] : e \in {x \in Kept : KeptEntry(x).repr[1] = ID}}

TableLexemes == {scanner.symbol_table[k].lexeme : k \in 1..Len(scanner.symbol_table)}

\* the error records whose thrown text stands for source bytes (the text of an
\* "Open comment at EOF" record is a fixed string: its bytes count as comment)
SpanErrors == {k \in 1..Len(scanner.lex_errors) :
                  scanner.lex_errors[k][3] # "Open comment at EOF"}

\* how often the byte at 0-based position p is covered by a kept token's
\* lexeme, an error's thrown text, a comment or whitespace
Cover(p) ==
      Cardinality({e \in Kept : /\ KeptEntry(e).g_end - Len(KeptEntry(e).repr[2]) <= p
                                /\ p < KeptEntry(e).g_end})
    + Cardinality({k \in SpanErrors : /\ scanner.g_err_span[k][1] <= p
                                      /\ p < scanner.g_err_span[k][2]})
    + (IF p \in scanner.g_blank THEN 1 ELSE 0)

\* The lexical structure of a source text as the specification describes it,
\* read off the text alone: a line comment runs from "//" up to a newline, a
\* form feed or the end; a block comment from "/*" up to the next "*/".
LineEndFrom(p) ==
    CHOOSE q \in p..Length :
        /\ q = Length \/ CharAt(q) \in {"\n", "\f"}
        /\ \A r \in p..(q - 1) : CharAt(r) \notin {"\n", "\f"}

IsClose(q) == CharAt(q) = "*" /\ CharAt(q + 1) = "/"

\* the position of the first "*/" at or after p, Length if there is none
CloseFrom(p) ==
    IF \E q \in p..(Length - 2) : IsClose(q)
    THEN CHOOSE q \in p..(Length - 2) : IsClose(q) /\ \A r \in p..(q - 1) : ~IsClose(r)
    ELSE Length

\* the positions from p on that are neither whitespace nor inside a comment;
\* a "*/" outside a comment is one unit, a stray closing comment
RECURSIVE CodePositions(_)
CodePositions(p) ==
    IF p >= Length THEN {}
    ELSE IF IsClose(p) THEN {p, p + 1} \cup CodePositions(p + 2)
    ELSE IF CharAt(p) = "/" /\ CharAt(p + 1) = "/" THEN CodePositions(LineEndFrom(p + 2))
    ELSE IF CharAt(p) = "/" /\ CharAt(p + 1) = "*"
         THEN (IF CloseFrom(p + 2) < Length THEN CodePositions(CloseFrom(p + 2) + 2) ELSE {})
    ELSE IF CharAt(p) \in WHITESPACE THEN CodePositions(p + 1)
    ELSE {p} \cup CodePositions(p + 1)

\* a byte that can begin no token and is not whitespace
IsIllegal(c) == c # NoChar /\ c \notin WHITESPACE /\ ~IsIdChar(c) /\ c \notin SYMBOLS

\* the source with all comments and all whitespace removed
RECURSIVE Pick(_, _)
Pick(p, keep) == IF p >= Length THEN <<>>
                 ELSE (IF p \in keep THEN <<CharAt(p)>> ELSE <<>>) \o Pick(p + 1, keep)

Stripped == Pick(0, CodePositions(0))

\* the lexemes of the tokens returned before EOF, in call order
RECURSIVE LexemesOf(_)
LexemesOf(ts) == IF ts = <<>> THEN <<>>
                 ELSE (IF Head(ts).type = EOF THEN <<>> ELSE <<Head(ts).lexeme>>)
                      \o LexemesOf(Tail(ts))

\* an identifier of the source: a maximal run of identifier characters in the
\* code part of the text, from position s up to e, that starts with a letter
\* or an underscore
IsIdentifierAt(s, e) ==
    /\ 0 <= s /\ s < e /\ e <= Length
    /\ \A p \in s..(e - 1) : IsIdChar(CharAt(p))
    /\ isalpha(CharAt(s)) \/ CharAt(s) = "_"
    /\ ~IsIdChar(CharAt(s - 1))
    /\ ~IsIdChar(CharAt(e))
    /\ s \in CodePositions(0)

IdentifierSpans == {se \in (0..Length) \X (0..Length) : IsIdentifierAt(se[1], se[2])}

\* the non-keyword identifiers immediately followed by the illegal character
BeforeIllegal == {se \in IdentifierSpans : /\ CharAt(se[2]) = "@"
                                           /\ Slice(se[1], se[2]) \notin KEYWORDS}

IllegalRecordFor(id) ==
    \E k \in 1..Len(scanner.lex_errors) :
        /\ scanner.lex_errors[k][3] = "Illegal character"
        /\ Len(scanner.lex_errors[k][2]) > Len(id)
        /\ SubSeq(scanner.lex_errors[k][2], 1, Len(id) + 1) = id \o <<"@">>

Invalidated(id) ==
    /\ id \notin KeptIdLexemes
    /\ id \notin TableLexemes
    /\ IllegalRecordFor(id)

-----------------------------------------------------------------------------
(* Scanner properties *)

\* C1: once the driver has drained the scanner to EOF, every byte of the
\* source is covered exactly once: by the lexeme of a kept token, by the
\* thrown text of an error record, by a comment, or as whitespace.
C1_EveryByteCoveredOnce ==
    pc = "done" => \A p \in 0..(Length - 1) : Cover(p) = 1

\* C2: after scanning to EOF the lexemes of the symbol table are the seven
\* keywords and exactly the lexemes that remain as ID tokens in the output.
C2_TableIsKeywordsAndKeptIds ==
    pc = "done" => TableLexemes = KEYWORDS \cup KeptIdLexemes

\* C3 as stated: after scanning to EOF, every non-keyword identifier that is
\* immediately followed by '@' somewhere in the source is absent from the
\* token output and from the symbol table, and an "Illegal character" record
\* has a thrown text that begins with the identifier and '@'.
C3_AnyIdBeforeIllegalInvalidated ==
    pc = "done" =>
        \A s \in 0..Length, e \in 0..Length :
            (/\ s < e /\ CharAt(e) = "@"
             /\ \A p \in s..(e - 1) : IsIdChar(CharAt(p))
             /\ isalpha(CharAt(s)) \/ CharAt(s) = "_"
             /\ ~IsIdChar(CharAt(s - 1))
             /\ Slice(s, e) \notin KEYWORDS)
            => Invalidated(Slice(s, e))

\* the identifier at se is not glued to an illegal character on its left and
\* occurs as an identifier nowhere else in the code part of the source
Standalone(se) ==
    /\ ~IsIllegal(CharAt(se[1] - 1))
    /\ \A other \in IdentifierSpans :
           Slice(other[1], other[2]) = Slice(se[1], se[2]) => other = se

\* C3, amended: the same for an identifier of the code part of the source
\* (outside comments) that is not immediately preceded by an illegal character
\* and occurs as an identifier only there.
C3_IdBeforeIllegalInvalidated ==
    pc = "done" =>
        \A se \in BeforeIllegal : Standalone(se) => Invalidated(Slice(se[1], se[2]))

\* C3's case: scanning has ended on a source with such an identifier, which
\* was returned as an ID token and then retracted
C3_Witness ==
    /\ pc = "done"
    /\ \E se \in BeforeIllegal :
          /\ Standalone(se)
          /\ \E k \in 1..Len(returned) :
                 returned[k].type = ID /\ returned[k].lexeme = Slice(se[1], se[2])

\* C9: on a source without lexical errors, the lexemes of the tokens returned
\* before EOF, concatenated in call order, are the source with all comments
\* and all whitespace removed.
C9_LexemesAreStrippedSource ==
    (pc = "done" /\ scanner.lex_errors = <<>>) => Concat(LexemesOf(returned)) = Stripped

\* C9's case: an error-free scan of a source with a comment, whitespace and
\* at least two tokens
C9_Witness ==
    /\ pc = "done" /\ scanner.lex_errors = <<>>
    /\ Len(returned) >= 3
    /\ \E p \in scanner.g_blank : CharAt(p) = "/"
    /\ \E p \in scanner.g_blank : CharAt(p) \in WHITESPACE

\* a call that follows a call which returned EOF returns EOF again on the same
\* line and leaves position, error list and symbol table as they are
EOFIsStable ==
    [][tok.type = EOF =>
         /\ tok'.type = EOF
         /\ tok'.line = tok.line
         /\ scanner'.pos = scanner.pos
         /\ scanner'.lex_errors = scanner.lex_errors
         /\ scanner'.symbol_table = scanner.symbol_table]_vars

EOFReturned == \E k \in 1..Len(returned) : returned[k].type = EOF

\* until EOF has been returned the driver is about to call get_next_token or
\* a call is under way (no call has ended in an exception), and every call
\* that returns something other than EOF has consumed at least one byte: at
\* most Length calls return before the one that returns EOF
CallsReachEOF ==
    /\ EOFReturned \/ pc \in {"loop", "in_call"}
    /\ \A k \in 1..Len(returned) : returned[k].type # EOF => k <= Length

\* C4: repeated calls of get_next_token eventually return EOF, and every call
\* after the first EOF returns EOF again, on the same line, without changing
\* the position, the error list or the symbol table.
C4_EventuallyEOFThenStable == []CallsReachEOF /\ EOFIsStable

\* C10: get_next_token never fails: no call ends in an exception, and every
\* call returns a token of kind KEYWORD, ID, NUM, SYMBOL or EOF.
C10_NeverFailsNeverERROR ==
    /\ pc # "raised"
    /\ tok # NoTok => tok.type \in {KEYWORD, ID, NUM, SYMBOL, EOF}

\* the closed set of messages the specification gives for an error record
ClosedMessageSet ==
    {"Illegal character", "Malformed number", "Invalid input", "Unmatched comment",
     "Unclosed comment"}

\* C11: every lexical-error record the scanner has appended is a triple
\* (line, thrown_text, message) whose message is one of "Illegal character",
\* "Malformed number", "Invalid input", "Unmatched comment", "Unclosed comment".
C11_MessagesInClosedSet ==
    \A k \in 1..Len(scanner.lex_errors) :
        /\ Len(scanner.lex_errors[k]) = 3
        /\ scanner.lex_errors[k][3] \in ClosedMessageSet

\* C12: the thrown text of every error record is the slice of the source from
\* the first byte considered bad (an identifier-like prefix included) up to
\* the scanner position at which the handling of the error stopped.
C12_ThrownIsSourceSlice ==
    \A k \in 1..Len(scanner.lex_errors) :
        scanner.lex_errors[k][2] = Slice(scanner.g_err_span[k][1], scanner.g_err_span[k][2])

\* the position of the "/*" that opens a block comment which is never closed,
\* read off the text alone; -1 if the text has none
RECURSIVE OpenCommentFrom(_)
OpenCommentFrom(p) ==
    IF p >= Length THEN -1
    ELSE IF IsClose(p) THEN OpenCommentFrom(p + 2)
    ELSE IF CharAt(p) = "/" /\ CharAt(p + 1) = "/" THEN OpenCommentFrom(LineEndFrom(p + 2))
    ELSE IF CharAt(p) = "/" /\ CharAt(p + 1) = "*"
         THEN (IF CloseFrom(p + 2) < Length THEN OpenCommentFrom(CloseFrom(p + 2) + 2) ELSE p)
    ELSE OpenCommentFrom(p + 1)

OpenCommentRecords ==
    {k \in 1..Len(scanner.lex_errors) : scanner.lex_errors[k][3] = "Open comment at EOF"}

\* the scanner has consumed the source to its end and the source ends inside
\* a block comment
OpenCommentConsumed ==
    /\ Length > 0 /\ scanner.pos = Length
    /\ OpenCommentFrom(0) # -1

\* the line of the byte at position p: 1 plus the number of newlines before it
LineOf(p) == 1 + Cardinality({q \in 0..(p - 1) : CharAt(q) = "\n"})

\* the positions at which a digit run begins a lexeme: a digit in the code
\* part of the text that continues neither an identifier-like run nor an
\* illegal character
NumberStarts ==
    {s \in 0..(Length - 1) : /\ isdigit(CharAt(s))
                             /\ ~IsIdChar(CharAt(s - 1))
                             /\ ~IsIllegal(CharAt(s - 1))
                             /\ s \in CodePositions(0)}

\* the two malformed shapes: a leading zero followed by a digit, or a digit
\* run immediately followed by a letter or an underscore
IsMalformedAt(s) ==
    LET d == DigitRunEnd(s) IN
    \/ CharAt(s) = "0" /\ d > s + 1
    \/ isalpha(CharAt(d)) \/ CharAt(d) = "_"

MalformedRecordsAt(s) ==
    {k \in 1..Len(scanner.lex_errors) : /\ scanner.lex_errors[k][3] = "Malformed number"
                                        /\ scanner.g_err_span[k][1] = s}

\* the kept NUM tokens that end inside the bytes s+1 .. e
NumTokensIn(s, e) ==
    {x \in Kept : /\ KeptEntry(x).repr[1] = NUM
                  /\ s < KeptEntry(x).g_end /\ KeptEntry(x).g_end <= e}

\* a malformed run: no NUM token, one "Malformed number" record, on the line
\* of the first digit, whose thrown text is the whole [A-Za-z0-9_] run
MalformedHandled(s) ==
    LET e == IdRunEnd(s) IN
    /\ NumTokensIn(s, e) = {}
    /\ Cardinality(MalformedRecordsAt(s)) = 1
    /\ \A k \in MalformedRecordsAt(s) : /\ scanner.lex_errors[k][1] = LineOf(s)
                                        /\ scanner.lex_errors[k][2] = Slice(s, e)

\* a well-formed run: a NUM token with the digits, no "Malformed number" record
NumberEmitted(s) ==
    LET e == DigitRunEnd(s) IN
    /\ \E x \in Kept : /\ KeptEntry(x).repr = token_repr(NUM, Slice(s, e))
                       /\ KeptEntry(x).g_end = e
    /\ MalformedRecordsAt(s) = {}

\* no call that has recorded a malformed number ends in an exception instead
\* of returning the next token
MalformedCallReturns ==
    pc = "raised" =>
        scanner.lex_errors[Len(scanner.lex_errors)][3] # "Malformed number"

\* C13: a digit run that starts with '0' followed by another digit, or that is
\* immediately followed by a letter or an underscore, gives no NUM token and
\* exactly one "Malformed number" record, on the line of the first digit, with
\* the whole contiguous [A-Za-z0-9_] run as thrown text, and the same call
\* returns the next good token; a lone 0 and every digit run not followed by
\* a letter or an underscore is a NUM token without such a record.
C13_MalformedNumbers ==
    /\ MalformedCallReturns
    /\ pc = "done" =>
          \A s \in NumberStarts :
              IF IsMalformedAt(s) THEN MalformedHandled(s) ELSE NumberEmitted(s)

\* C14: when "/*" is not closed before the end of the input, no token comes
\* from the comment body, exactly one "Open comment at EOF" record is made,
\* its line is the line of the opening "/*", the call that consumed the
\* comment returned EOF and so did every call since.
C14_OpenCommentAtEOF ==
    OpenCommentConsumed =>
        /\ \A x \in Kept : KeptEntry(x).g_end <= OpenCommentFrom(0)
        /\ Cardinality(OpenCommentRecords) = 1
        /\ \A k \in OpenCommentRecords : scanner.lex_errors[k][1] = LineOf(OpenCommentFrom(0))
        /\ pc = "done" /\ tok.type = EOF

\* C14's case: a token, then a comment that is opened on one line and still
\* open where the source ends on a later line, and a call made after the call
\* that returned EOF
C14_Witness ==
    /\ OpenCommentConsumed
    /\ LineOf(OpenCommentFrom(0)) < scanner.lineno
    /\ Kept # {}
    /\ extra >= 1

\* the latch (retract_lexeme, retract_line) of the scanner is clear
LatchClear ==
    /\ ~scanner._remove_last_token
    /\ scanner._removed_last_token_lexeme = <<>>
    /\ scanner._removed_last_token_lineno = NoLine

\* whenever the driver is about to call get_next_token, or has left its loop,
\* the latch is clear
LatchClearBetweenCalls == pc \in {"loop", "done"} => LatchClear

\* a step in which a call made by the driver's loop returns to the driver
CallReturns == pc \in {"loop", "in_call"} /\ pc' \in {"loop", "done"}

\* the grouped token output lo without the most recent (ID, lex) of line ln,
\* and without the line's group if it has become empty
Retracted(lo, lex, ln) ==
    LET group == lo[ln]
        last == Max({i \in 1..Len(group) : group[i].repr = token_repr(ID, lex)})
        rest == [i \in 1..(Len(group) - 1) |-> IF i < last THEN group[i] ELSE group[i + 1]]
    IN IF rest = <<>> THEN [k \in DOMAIN lo \ {ln} |-> lo[k]]
       ELSE [k \in DOMAIN lo |-> IF k = ln THEN rest ELSE lo[k]]

\* the driver's ordinary handling of the returned token: nothing for EOF, any
\* other token goes to the end of its line's group
Accumulated(lo) ==
    IF tok'.type = EOF THEN lo ELSE AppendToken(lo, tok', scanner'.pos)

\* a call that returns with the latch set: the token to retract is in the
\* group of the latched line, the driver deletes its most recent occurrence,
\* also when the call returns EOF, and clears the latch
LatchRead ==
    (CallReturns /\ scanner._remove_last_token) =>
        LET lex == scanner._removed_last_token_lexeme
            ln == scanner._removed_last_token_lineno
        IN /\ ln \in DOMAIN lines_output
           /\ \E i \in 1..Len(lines_output[ln]) :
                  lines_output[ln][i].repr = token_repr(ID, lex)
           /\ lines_output' = Accumulated(Retracted(lines_output, lex, ln))
           /\ ~scanner'._remove_last_token

\* a call that returns without the latch set retracts nothing
NoLatchNoRetraction ==
    (CallReturns /\ ~scanner._remove_last_token) =>
        lines_output' = Accumulated(lines_output)

\* C15: the retraction latch set by the scanner is read by the driver right
\* after the call that set it returns (also when it returns EOF): the most
\* recent (ID, retract_lexeme) of line retract_line is deleted, the line's
\* group is dropped if it became empty, and the latch is cleared, so that
\* each retraction is applied exactly once and the latch is clear before the
\* next call.
C15_RetractionLatchProtocol ==
    /\ []LatchClearBetweenCalls
    /\ [][LatchRead /\ NoLatchNoRetraction]_vars

\* C15's case: the call after the one that returned an identifier latched a
\* retraction and returned EOF, and the retraction has emptied the token output
C15_Witness ==
    /\ pc = "done"
    /\ Len(returned) = 2 /\ returned[1].type = ID /\ returned[2].type = EOF
    /\ lines_output = <<>>
    /\ LatchClear

\* C16: over the tokens returned by successive calls of get_next_token, EOF
\* included, the line numbers never decrease.
C16_TokenLinesNonDecreasing ==
    \A j \in 1..Len(returned), k \in 1..Len(returned) :
        j < k => returned[j].line <= returned[k].line

\* C16's case: tokens on different lines have been returned, then EOF, and
\* one more call has been made after it
C16_Witness ==
    /\ Len(returned) >= 4
    /\ returned[1].type # EOF /\ returned[2].type # EOF
    /\ returned[1].line < returned[2].line
    /\ returned[Len(returned)].type = EOF

\* a call returns a KEYWORD, ID, NUM or SYMBOL token: its line is the line of
\* the first byte of its lexeme (the scanner stands right after the lexeme)
ReturnedTokenLineAccurate ==
    (returned' # returned /\ tok'.type # EOF) =>
        tok'.line = LineOf(scanner'.pos - Len(tok'.lexeme))

\* the error records appended in a step carry the line of the first byte of
\* the offending construct, and the records made before keep their line
ErrorLinesAccurate ==
    /\ \A k \in (Len(scanner.lex_errors) + 1)..Len(scanner'.lex_errors) :
           scanner'.lex_errors[k][1] = LineOf(scanner'.g_err_span[k][1])
    /\ \A k \in 1..Len(scanner.lex_errors) :
           /\ scanner'.lex_errors[k][1] = scanner.lex_errors[k][1]
           /\ scanner'.g_err_span[k][1] = scanner.g_err_span[k][1]

\* C17: the line of every KEYWORD, ID, NUM and SYMBOL token and of every
\* lexical-error record is 1 plus the number of newlines that precede the
\* first byte of the lexeme, or of the offending construct, in the source.
C17_LinesAreAccurate == [][ReturnedTokenLineAccurate /\ ErrorLinesAccurate]_vars

\* C17's case: the scan has ended on a source with a block comment that runs
\* over a line break, an error record on a later line than the comment's
\* start, and a kept token on a later line still
C17_Witness ==
    /\ pc = "done"
    /\ \E p \in scanner.g_blank, q \in scanner.g_blank :
          /\ CharAt(p) = "/" /\ CharAt(p + 1) = "*"
          /\ p < q /\ q < BlockCommentClose(p + 2) /\ CharAt(q) = "\n"
          /\ \E k \in 1..Len(scanner.lex_errors) :
                 /\ scanner.lex_errors[k][1] > LineOf(p)
                 /\ \E x \in Kept : x[1] > scanner.lex_errors[k][1]

\* a byte that could begin a new token, or separates tokens
PlausibleTokenStart(c) ==
    c \in WHITESPACE \cup Letters \cup Digits \cup {"_"} \cup SYMBOLS \cup {"/", "*"}

\* the step ends with the scanner about to call itself: it has just finished
\* handling a malformed number or an illegal character
ErrorHandled == pc' = "in_call"

\* after the handling, the record of the handled construct is the last one;
\* its text is the source up to the next unread byte, so it holds every byte
\* the panic loop skipped, and no other record reaches into it
PanicPostcondition ==
    LET st == scanner'
        k == Len(st.lex_errors)
        e == st.lex_errors[k]
        first == st.pos - Len(e[2])
    IN /\ st.pos = Length \/ PlausibleTokenStart(CharAt(st.pos))
       /\ k > Len(scanner.lex_errors)
       /\ e[2] = Slice(first, st.pos)
       /\ e[1] = st.lineno
       /\ e[3] \in {"Malformed number", "Illegal character"}
       /\ e[3] = "Malformed number" => isdigit(e[2][1])
       /\ \A j \in 1..(k - 1) : st.g_err_span[j][2] <= first

\* C26: when the scanner has finished handling a malformed number or an
\* illegal character, the next unread byte is the end of input, whitespace, a
\* letter, a digit, an underscore, a symbol byte, '/' or '*'; the bytes the
\* panic loop skipped are the tail of the thrown text of the last error
\* record, whose line and message are those of the handled construct, and no
\* other record was made for them.
C26_PanicRecoveryPostcondition == [][ErrorHandled => PanicPostcondition]_vars

\* C26's case: a malformed number has been handled and its record ends with
\* an illegal byte, which only the panic loop can have consumed
C26_Witness ==
    /\ pc = "in_call"
    /\ LET e == scanner.lex_errors[Len(scanner.lex_errors)]
       IN /\ e[3] = "Malformed number"
          /\ Len(e[2]) >= 3
          /\ e[2][Len(e[2])] = "@"
          /\ e[2][Len(e[2]) - 1] = "@"

\* the record of the construct handled in the step, and where its text starts
HandledRecord == scanner'.lex_errors[Len(scanner'.lex_errors)]
HandledStart == scanner'.pos - Len(HandledRecord[2])

\* the position of the illegal character of the handled construct: the first
\* byte of its text that is not an identifier character
IllegalPosition ==
    CHOOSE p \in HandledStart..(scanner'.pos - 1) :
        /\ ~IsIdChar(CharAt(p))
        /\ \A q \in HandledStart..(p - 1) : IsIdChar(CharAt(q))

\* the scanner position right after the token the driver received last
EndOfLastReturned ==
    LET group == lines_output[tok.line] IN group[Len(group)].g_end

\* the handled construct is an illegal character right after the identifier
\* that was returned last: that token is an ID, it ends where the illegal
\* character stands, and its lexeme is the run of identifier bytes to the left
AdjacentToReturnedID ==
    /\ HandledRecord[3] = "Illegal character"
    /\ tok.type = ID
    /\ EndOfLastReturned = IllegalPosition
    /\ tok.lexeme = Slice(LeftStart(IllegalPosition), IllegalPosition)

\* the step sets the retraction latch or changes the symbol table
LatchOrTableTouched ==
    \/ scanner'._remove_last_token # scanner._remove_last_token
    \/ scanner'._removed_last_token_lexeme # scanner._removed_last_token_lexeme
    \/ scanner'._removed_last_token_lineno # scanner._removed_last_token_lineno
    \/ scanner'.symbol_table # scanner.symbol_table

\* handling an error leaves the grouped token output alone, and the latch and
\* the symbol table too unless the error is adjacent to the returned ID
OnlyAdjacentErrorsRetract ==
    ErrorHandled =>
        /\ lines_output' = lines_output
        /\ LatchOrTableTouched => AdjacentToReturnedID

\* C27: an illegal character sets the retraction latch and deletes a symbol-
\* table entry only if the token returned before it is an ID that ends at the
\* position of the illegal character and whose lexeme is the identifier bytes
\* immediately left of it; after whitespace or a comment, or after a KEYWORD,
\* NUM or SYMBOL, the error leaves the symbol table and the latch as they
\* were, and a call that returns without the latch takes nothing out of the
\* grouped token output.
C27_AdjacencyRequiredForRetraction ==
    [][OnlyAdjacentErrorsRetract /\ NoLatchNoRetraction]_vars

\* C27's case: an illegal character that a blank separates from the
\* identifier returned before it has been handled; the identifier is still in
\* the symbol table and in the token output, and the latch is clear
C27_Witness ==
    /\ pc = "in_call"
    /\ tok.type = ID
    /\ LatchClear
    /\ InTable(scanner.symbol_table, tok.lexeme)
    /\ LET e == scanner.lex_errors[Len(scanner.lex_errors)]
           first == scanner.pos - Len(e[2])
           group == lines_output[tok.line]
       IN /\ e[3] = "Illegal character"
          /\ first > 0
          /\ CharAt(first - 1) = " "
          /\ group[Len(group)].repr = token_repr(ID, tok.lexeme)
          /\ group[Len(group)].g_end = first - 1

\* the lines of the ID tokens with the lexeme that the driver holds: the
\* occurrences that were emitted and not retracted
KeptLinesOf(lexeme) ==
    {e[1] : e \in {x \in Kept : KeptEntry(x).repr = token_repr(ID, lexeme)}}

\* C28: between the calls of the driver, every identifier entry of the symbol
\* table has as first-seen line the line of the earliest ID token with its
\* lexeme that was emitted and not retracted, also after a later occurrence
\* was retracted and the identifier occurred again.
C28_FirstSeenIsEarliestKeptOccurrence ==
    pc \in {"loop", "done"} =>
        \A k \in 1..Len(scanner.symbol_table) :
            LET entry == scanner.symbol_table[k]
            IN entry.class = ID =>
                   /\ KeptLinesOf(entry.lexeme) # {}
                   /\ \A ln \in KeptLinesOf(entry.lexeme) : entry.first_seen <= ln
                   /\ entry.first_seen \in KeptLinesOf(entry.lexeme)

\* the positions of the text where a "*" stands; those of the code part where
\* a "*/" stands, and those where a "*" stands that no "/" follows
Stars == {k - 1 : k \in {j \in DOMAIN src : src[j] = "*"}}
StrayStarts == {p \in Stars : IsClose(p) /\ p \in CodePositions(0)}
LoneStars == {p \in Stars : ~IsClose(p) /\ p \in CodePositions(0)}

\* the error records whose thrown text is exactly the bytes from p to q
RecordsOver(p, q) ==
    {k \in 1..Len(scanner.lex_errors) : scanner.g_err_span[k] = <<p, q>>}

\* the kept tokens of the given kind whose lexeme ends right before position q
KeptTokenEndingAt(kind, q) ==
    {e \in Kept : KeptEntry(e).repr[1] = kind /\ KeptEntry(e).g_end = q}

\* something was scanned from position q on: a blank, a comment, a token, an
\* error, or q is where the scanner stands or where the text ends
ScanningResumedAt(q) ==
    \/ q = scanner.pos
    \/ q = Length
    \/ q \in scanner.g_blank
    \/ CharAt(q) = "/" /\ CharAt(q + 1) \in {"/", "*"}
    \/ \E k \in 1..Len(scanner.lex_errors) : scanner.g_err_span[k][1] = q
    \/ \E e \in Kept : /\ KeptEntry(e).repr[1] # EOF
                       /\ KeptEntry(e).g_end - Len(KeptEntry(e).repr[2]) = q

\* the "*/" at p was handled as a stray closing comment: one record of exactly
\* its two bytes at its line, no other record reaching into them, no SYMBOL
\* token for either byte, and scanning went on at p + 2
HandledAsStray(p) ==
    /\ Cardinality(RecordsOver(p, p + 2)) = 1
    /\ \A k \in RecordsOver(p, p + 2) :
           scanner.lex_errors[k] = <<LineOf(p), <<"*", "/">>, "Stray closing comment">>
    /\ \A k \in 1..Len(scanner.lex_errors) :
           \/ k \in RecordsOver(p, p + 2)
           \/ scanner.g_err_span[k][2] <= p
           \/ scanner.g_err_span[k][1] >= p + 2
    /\ KeptTokenEndingAt(SYMBOL, p + 1) = {}
    /\ KeptTokenEndingAt(SYMBOL, p + 2) = {}
    /\ ScanningResumedAt(p + 2)

\* the "*" at p was returned as the token (SYMBOL, *) of its line
ReturnedAsStar(p) ==
    \E e \in KeptTokenEndingAt(SYMBOL, p + 1) :
        /\ KeptEntry(e).repr = token_repr(SYMBOL, <<"*">>)
        /\ e[1] = LineOf(p)

\* C29: between the calls of the driver, every "*/" outside a comment that the
\* scanner has passed was consumed
\* as exactly two bytes with one ("*/", "Stray closing comment") record at its
\* line and no token, scanning went on right after it, and every "*" that no
\* "/" follows was returned as SYMBOL "*".
C29_StrayClosingComment ==
    pc \in {"loop", "done"} =>
        /\ \A p \in StrayStarts : p < scanner.pos => HandledAsStray(p)
        /\ \A p \in LoneStars : p < scanner.pos => ReturnedAsStar(p)

\* a stray "*/" and, later in the text, a lone "*", both scanned
C29_Witness ==
    /\ pc = "done"
    /\ \E p \in StrayStarts : \E q \in LoneStars :
           /\ p < q
           /\ HandledAsStray(p)
           /\ ReturnedAsStar(q)

\* the position is inside the text or at its end, and lineno counts the
\* newlines of the consumed prefix
PositionAndLineConsistent ==
    /\ 0 <= scanner.pos
    /\ scanner.pos <= Length
    /\ scanner.lineno = 1 + Cardinality({q \in 0..(scanner.pos - 1) : CharAt(q) = "\n"})

PositionNeverDecreases == scanner'.pos >= scanner.pos

\* C32: in every state reached by calls of get_next_token, 0 <= pos <= length
\* and lineno is 1 plus the number of newlines in the consumed prefix
\* src[0:pos]; and pos never decreases from one step to the next.
C32_ScannerStateInvariant ==
    []PositionAndLineConsistent /\ [][PositionNeverDecreases]_vars

\* the whole of a text with two line breaks and more has been consumed, also
\* by a call made after the first EOF
C32_Witness ==
    /\ pc = "done"
    /\ extra > 0
    /\ Length > 0
    /\ scanner.pos = Length
    /\ scanner.lineno >= 3
    /\ scanner.lex_errors # <<>>

\* the latch holds an instruction that the driver has not read yet
LatchHeld == scanner._remove_last_token

\* the instruction in the latch
LatchOf(st) == <<st._removed_last_token_lexeme, st._removed_last_token_lineno>>

\* a held instruction is met only inside a call, after the error that set
\* it; the scanner then remembers no last token, so that the adjacency test
\* cannot pass again before the call returns
NoAdjacencyWhileHeld ==
    LatchHeld => /\ pc \in {"in_call", "raised"}
                 /\ scanner.last_token = NoToken
                 /\ scanner.lex_errors # <<>>

\* a step of a call that does not return yet leaves a held instruction as it
\* is: neither the latch nor the symbol table nor the token output changes
HeldLatchUntouched ==
    (LatchHeld /\ pc' \in {"in_call", "raised"}) =>
        /\ scanner'._remove_last_token
        /\ LatchOf(scanner') = LatchOf(scanner)
        /\ scanner'.symbol_table = scanner.symbol_table
        /\ lines_output' = lines_output

\* C33: within one call of get_next_token, its recursive continuation
\* included, at most one adjacency is detected: once the latch holds an
\* instruction it is not written again before the call returns, and the
\* driver then reads exactly the instruction that was set, so that no
\* retraction instruction is lost in the driver loop.
C33_LatchNeverOverwritten ==
    /\ []NoAdjacencyWhileHeld
    /\ [][HeldLatchUntouched /\ LatchRead]_vars

\* the latch holds an instruction and the call has handled a further error
\* in a deeper activation since
C33_Witness ==
    /\ pc = "in_call"
    /\ LatchHeld
    /\ frame >= 2
    /\ Len(scanner.lex_errors) >= 2
    /\ LatchOf(scanner)[1] # <<>>

\* the grouped token output lo without the last entry of the group of line
\* ln, and without the group if that was its only entry
WithoutLastOf(lo, ln) ==
    LET rest == SubSeq(lo[ln], 1, Len(lo[ln]) - 1)
    IN IF rest = <<>> THEN [k \in DOMAIN lo \ {ln} |-> lo[k]]
       ELSE [k \in DOMAIN lo |-> IF k = ln THEN rest ELSE lo[k]]

\* the driver applies a retraction in the step: the latched (lexeme, line) is
\* the ID token that the previous iteration of the loop received and
\* appended; that entry is the last one of its line's group and the most
\* recent entry of the whole output, and it is the one entry that goes
RetractionDeletesLatestEntry ==
    (CallReturns /\ scanner._remove_last_token) =>
        LET lex == scanner._removed_last_token_lexeme
            ln == scanner._removed_last_token_lineno
        IN /\ tok # NoTok
           /\ tok.type = ID /\ tok.lexeme = lex /\ tok.line = ln
           /\ ln \in DOMAIN lines_output
           /\ LET group == lines_output[ln]
                  last == group[Len(group)]
              IN /\ last.repr = token_repr(ID, lex)
                 /\ \A e \in Kept : KeptEntry(e).g_end <= last.g_end
                 /\ \A i \in 1..(Len(group) - 1) : group[i].g_end < last.g_end
           /\ lines_output' = Accumulated(WithoutLastOf(lines_output, ln))

\* C34: whenever the driver applies a retraction, the entry it deletes is the
\* token that the immediately preceding iteration of the loop appended, the
\* last entry of the group of the latched line and the most recent token of
\* all; an earlier (ID, lexeme) entry of the same line is never the one
\* deleted, and the deletion always finds its entry.
C34_RetractionDeletesPrecedingToken == [][RetractionDeletesLatestEntry]_vars

\* a retraction has been applied on a line that holds an earlier entry of
\* the same identifier, and that entry is still there
C34_Witness ==
    /\ pc = "done"
    /\ scanner.lex_errors # <<>>
    /\ Len(returned) = Cardinality(Kept) + 2
    /\ \E k \in 1..Len(scanner.lex_errors) : \E e \in Kept :
           LET span == scanner.g_err_span[k]
               left == Slice(span[1], IdRunEnd(span[1]))
           IN /\ left # <<>>
              /\ e[1] = scanner.lex_errors[k][1]
              /\ KeptEntry(e).repr = token_repr(ID, left)
              /\ KeptEntry(e).g_end < span[1]

\* the records made before the step are all still there, in their places
\* and as they were
RecordsKept ==
    /\ Len(scanner'.lex_errors) >= Len(scanner.lex_errors)
    /\ \A k \in 1..Len(scanner.lex_errors) : scanner'.lex_errors[k] = scanner.lex_errors[k]

\* the records made in the step come after the earlier ones in the source
\* text, and on the same line or a later one
RecordsInSourceOrder ==
    \A k \in (Len(scanner.lex_errors) + 1)..Len(scanner'.lex_errors) :
        k > 1 => /\ scanner'.lex_errors[k - 1][1] <= scanner'.lex_errors[k][1]
                 /\ scanner'.g_err_span[k - 1][1] < scanner'.g_err_span[k][1]

\* the record that panic recovery has rewritten is the last one; it has the
\* line it was logged with (the current one: no line break is skipped) and
\* one of the two messages, and its text has grown by the bytes skipped: it
\* is the source from the first byte of the construct, over the run of
\* identifier characters logged at first, to the next unread byte
RewrittenByExtension ==
    pc' = "in_call" =>
        LET k == Len(scanner'.lex_errors)
            e == scanner'.lex_errors[k]
            a == scanner'.g_err_span[k][1]
            logged == IF e[3] = "Malformed number" THEN IdRunEnd(a)
                      ELSE IdRunEnd(IdRunEnd(a) + 1)
        IN /\ k > Len(scanner.lex_errors)
           /\ e[3] \in {"Malformed number", "Illegal character"}
           /\ e[1] = scanner'.lineno
           /\ logged <= scanner'.pos
           /\ e[2] = Slice(a, logged) \o Slice(logged, scanner'.pos)
           /\ \A q \in logged..(scanner'.pos - 1) : ~PlausibleTokenStart(CharAt(q))

\* C35: the list of lexical errors only grows at its end and in source
\* order: no record is ever removed, moved or changed by a later step; the
\* record that panic recovery rewrites is the last one, with the same line
\* and message and a text extended by the skipped bytes; and the lines of the
\* records never decrease along the list.
C35_ErrorListAppendOnly ==
    [][RecordsKept /\ RecordsInSourceOrder /\ RewrittenByExtension]_vars

\* a finished scan with records on two lines, the first of which was
\* extended by panic recovery
C35_Witness ==
    /\ pc = "done"
    /\ Len(scanner.lex_errors) >= 2
    /\ scanner.lex_errors[1][1] < scanner.lex_errors[Len(scanner.lex_errors)][1]
    /\ LET e == scanner.lex_errors[1]
       IN /\ Len(e[2]) >= 2
          /\ e[2][Len(e[2])] = "@"
          /\ e[2][Len(e[2]) - 1] = "@"

\* the table made at construction: the seven keywords, one entry each, with
\* class KEYWORD and no first-seen line
KeywordEntriesAsConstructed ==
    /\ Cardinality(KEYWORDS) = 7
    /\ Len(InitialSymbolTable) = 7
    /\ \A kw \in KEYWORDS :
           \E k \in 1..Len(InitialSymbolTable) :
               /\ InitialSymbolTable[k].lexeme = kw
               /\ InitialSymbolTable[k].class = KEYWORD
               /\ InitialSymbolTable[k].first_seen = NoLine

\* C36: in every reachable state each of the seven keywords has exactly one
\* entry in the symbol table, with class KEYWORD and no first-seen line: the
\* keyword entries are the ones made at construction, in their places, and no
\* later entry is a keyword or has class KEYWORD; scanning a keyword and
\* retracting an identifier never add, remove or alter a keyword entry.
C36_KeywordEntriesStable ==
    /\ KeywordEntriesAsConstructed
    /\ Len(scanner.symbol_table) >= Len(InitialSymbolTable)
    /\ SubSeq(scanner.symbol_table, 1, Len(InitialSymbolTable)) = InitialSymbolTable
    /\ \A k \in (Len(InitialSymbolTable) + 1)..Len(scanner.symbol_table) :
           /\ scanner.symbol_table[k].class # KEYWORD
           /\ scanner.symbol_table[k].lexeme \notin KEYWORDS

\* a keyword has been scanned and an identifier has been retracted
C36_Witness ==
    /\ pc = "done"
    /\ \E k \in 1..Len(returned) : returned[k].type = KEYWORD
    /\ \E k \in 1..Len(returned) : returned[k].type = ID
    /\ Len(returned) >= Cardinality(Kept) + 2
    /\ scanner.lex_errors # <<>>

-----------------------------------------------------------------------------
(* Scanner/compiler.py: tokens and parse-tree nodes.  A lexeme of the parser *)
(* is a string; a label or a message is the sequence of the pieces that the   *)
(* code concatenates.                                                         *)

\* class Token
ParserToken(typ, lexeme, line, col) ==
    [type |-> typ, lexeme |-> lexeme, line |-> line, col |-> col]

\* class Node
Node(label) == [label |-> <<label>>, children |-> <<>>, is_leaf_token |-> FALSE]

\* class TokenNode: the label is f"({token.type}, {token.lexeme})"
TokenNode(token) ==
    [label |-> <<"(", token.type, ", ", token.lexeme, ")">>,
     children |-> <<>>, is_leaf_token |-> TRUE]

\* Node.add
add(node, child) == [node EXCEPT !.children = Append(@, child)]

epsilon == Node("epsilon")

\* no node: the tree before parse() has returned, the node of a frame before
\* its function has created one
NoTree == [label |-> <<>>, children |-> <<>>, is_leaf_token |-> FALSE]

\* the box-drawing glyphs of tree_to_lines, written in ASCII: U+2514 U+2500
\* U+2500 and a blank is the connector of a last child, U+251C U+2500 U+2500
\* and a blank the one of another child, U+2502 and three blanks the
\* continuation of the prefix below a child that is not the last
LastConnector == "+-- "
MidConnector == "|-- "
BarIndent == "|   "
BlankIndent == "    "

RECURSIVE tree_to_lines(_, _, _), tree_to_lines_of_children(_, _, _)

\* tree_to_lines: a line and a prefix are the sequences of the pieces the
\* code concatenates
tree_to_lines(node, prefix, is_last) ==
    LET connector == IF is_last THEN LastConnector ELSE MidConnector
        line == IF prefix # <<>> THEN prefix \o <<connector>> \o node.label ELSE node.label
        new_prefix == prefix \o <<IF is_last THEN BlankIndent ELSE BarIndent>>
    IN <<line>> \o (IF node.children # <<>>
                    THEN tree_to_lines_of_children(node.children, new_prefix, 1)
                    ELSE <<>>)

\* "for i, child in enumerate(node.children): lines.extend(...)", from the
\* i-th child on
tree_to_lines_of_children(children, new_prefix, i) ==
    IF i > Len(children) THEN <<>>
    ELSE tree_to_lines(children[i], new_prefix, i = Len(children))
             \o tree_to_lines_of_children(children, new_prefix, i + 1)

\* no output file has been written
NoFiles == [parse_tree |-> <<>>, syntax_errors |-> <<>>]

-----------------------------------------------------------------------------
(* class Parser.  The Parser object is the record ps: i and errors are its    *)
(* fields, g_trace is history: the value of i after construction and after    *)
(* every assignment to it.  A syntax-error record is the message, the line    *)
(* and column formatted into it (NoLine when the message has none) and, as    *)
(* history, g_at: the index of the lookahead when the error was detected.     *)
(*                                                                            *)
(* The grammar functions call each other recursively.  The call stack is      *)
(* explicit: a frame is the function, the node it is building and the stage   *)
(* it has reached, stage 0 being its entry and stage k the point where its    *)
(* k-th call site has returned.  A grammar function is an operator of the     *)
(* stage and of r = [node, ps], the node under construction and the Parser    *)
(* object; it runs the code up to the next call or return and yields that     *)
(* move.                                                                      *)

\* Parser.__init__
NewParser == [i |-> 0, errors |-> <<>>, g_trace |-> <<0>>]

\* Parser.cur
cur(ps) == tokens[ps.i + 1]

\* Parser.advance
Parser_advance(ps) ==
    IF cur(ps).type # EOF
    THEN [ps EXCEPT !.i = @ + 1, !.g_trace = Append(@, ps.i + 1)]
    ELSE ps

\* a message without a position
Msg(text) == [msg |-> text, line |-> NoLine, col |-> NoLine]

\* a message that ends in "{line}:{col}" of the lookahead
MsgAt(text, ps) == [msg |-> text, line |-> cur(ps).line, col |-> cur(ps).col]

\* Parser.error with a panic that steps back to the token before
error_StepsBack(ps, msg) ==
    [ps EXCEPT !.errors = Append(@, [msg |-> msg.msg, line |-> msg.line,
                                     col |-> msg.col, g_at |-> ps.i]),
               !.i = IF @ > 0 THEN @ - 1 ELSE @,
               !.g_trace = IF ps.i > 0 THEN Append(@, ps.i - 1) ELSE @]

\* Parser.error with a panic that skips two tokens
error_SkipsTwoTokens(ps, msg) ==
    LET ps1 == [ps EXCEPT !.errors = Append(@, [msg |-> msg.msg, line |-> msg.line,
                                                 col |-> msg.col, g_at |-> ps.i])]
    IN IF cur(ps1).type # EOF THEN Parser_advance(Parser_advance(ps1)) ELSE ps1

\* Parser.error
error(ps, msg) ==
    LET ps1 == [ps EXCEPT !.errors = Append(@, [msg |-> msg.msg, line |-> msg.line,
                                                 col |-> msg.col, g_at |-> ps.i])]
    IN IF cur(ps1).type # EOF THEN Parser_advance(ps1) ELSE ps1

\* "node = Node(label)" at the head of a grammar function
Start(label, ps) == [node |-> Node(label), ps |-> ps]

\* "self.cur().type == typ and self.cur().lexeme in lexemes"
IsTok(ps, typ, lexemes) == cur(ps).type = typ /\ cur(ps).lexeme \in lexemes

\* "self.cur().type == typ"
IsKind(ps, typ) == cur(ps).type = typ

\* the lookahead attached twice before the cursor moves
AddTok_AttachesTwice(r) ==
    [node |-> add(add(r.node, TokenNode(cur(r.ps))), TokenNode(cur(r.ps))),
     ps |-> Parser_advance(r.ps)]

\* "node.add(TokenNode(self.cur())); self.advance()"
AddTok(r) == [node |-> add(r.node, TokenNode(cur(r.ps))), ps |-> Parser_advance(r.ps)]

\* "node.children.append(Node('epsilon'))"
AddEps(r) == [r EXCEPT !.node = add(@, epsilon)]

\* "self.error(msg)"
Fail(r, msg) == [r EXCEPT !.ps = error(@, msg)]

\* "if <lookahead is typ, one of lexemes>: attach it; else: self.error(msg)"
Expect(r, typ, lexemes, msg) ==
    IF IsTok(r.ps, typ, lexemes) THEN AddTok(r) ELSE Fail(r, Msg(msg))

\* "if self.cur().type == typ: attach it; else: self.error(msg)"
ExpectKind(r, typ, msg) ==
    IF IsKind(r.ps, typ) THEN AddTok(r) ELSE Fail(r, msg)

\* a frame of the call stack on entry to fn; g_entry is history: the index of
\* the lookahead when fn was called
Frame(fn, i) == [fn |-> fn, stage |-> 0, node |-> NoTree, mode |-> "add", g_entry |-> i]

\* "node.add(self.fn())": call fn, attach the node it returns, go on at stage
Call(fn, stage, r) == [kind |-> "call", fn |-> fn, stage |-> stage, mode |-> "add", r |-> r]

\* "return self.fn()": call fn and return the node it returns
CallReturn(fn, stage, r) ==
    [kind |-> "call", fn |-> fn, stage |-> stage, mode |-> "return", r |-> r]

\* "return node"
Return(r) == [kind |-> "return", r |-> r]

\* Parser.parse
parse(stage, r) ==
    IF stage = 0 THEN Call("declaration_list", 1, Start("Program", r.ps))
    ELSE Return(r)

\* Parser.declaration_list: every stage is the head of the while loop
declaration_list(stage, r) ==
    LET r0 == IF stage = 0 THEN Start("Declaration-list", r.ps) ELSE r
    IN IF IsTok(r0.ps, KEYWORD, {"int", "void"})
       THEN Call("declaration", 1, r0)
       ELSE Return(IF r0.node.children = <<>> THEN AddEps(r0) ELSE r0)

\* Parser.declaration
declaration(stage, r) ==
    CASE stage = 0 -> Call("declaration_initial", 1, Start("Declaration", r.ps))
      [] stage = 1 -> Call("declaration_prime", 2, r)
      [] stage = 2 -> Return(r)

\* Parser.declaration_initial
declaration_initial(stage, r) ==
    IF stage = 0 THEN Call("type_specifier", 1, Start("Declaration-initial", r.ps))
    ELSE Return(ExpectKind(r, ID, MsgAt("Expected ID in Declaration-initial at ", r.ps)))

\* Parser.declaration_prime
declaration_prime(stage, r) ==
    LET r0 == Start("Declaration-prime", r.ps)
    IN IF stage = 0
       THEN (IF IsTok(r.ps, SYMBOL, {"("})
             THEN Call("fun_declaration_prime", 1, r0)
             ELSE Call("var_declaration_prime", 1, r0))
       ELSE Return(r)

\* the synchronising loop that gives up at once
SkipToSemicolon_SkipsNothing(ps) == ps

RECURSIVE SkipToSemicolon(_)

\* Parser.var_declaration_prime: the synchronising while loop
SkipToSemicolon(ps) ==
    IF IsKind(ps, SYMBOL) /\ cur(ps).lexeme = ";" THEN ps
    ELSE IF IsKind(ps, EOF) THEN ps
    ELSE SkipToSemicolon(Parser_advance(ps))

\* Parser.var_declaration_prime
var_declaration_prime(stage, r) ==
    LET r0 == Start("Var-declaration-prime", r.ps)
    IN IF IsTok(r.ps, SYMBOL, {"["})
       THEN LET r1 == AddTok(r0)
                r2 == ExpectKind(r1, NUM, Msg("Expected NUM in array declaration"))
                r3 == Expect(r2, SYMBOL, {"]"}, "Expected ] in array declaration")
            IN Return(Expect(r3, SYMBOL, {";"}, "Expected ; after array declaration"))
       ELSE IF IsTok(r.ps, SYMBOL, {";"})
       THEN Return(AddTok(r0))
       ELSE LET r1 == Fail(r0, Msg("Expected ; or [ in Var-declaration-prime"))
                r2 == [r1 EXCEPT !.ps = SkipToSemicolon(@)]
            IN Return(IF IsTok(r2.ps, SYMBOL, {";"}) THEN AddTok(r2) ELSE r2)

\* Parser.fun_declaration_prime
fun_declaration_prime(stage, r) ==
    CASE stage = 0 -> Call("params", 1, Expect(Start("Fun-declaration-prime", r.ps), SYMBOL, {"("},
                                               "Expected ( in Fun-declaration-prime"))
      [] stage = 1 -> Call("compound_stmt", 2,
                           Expect(r, SYMBOL, {")"}, "Expected ) in Fun-declaration-prime"))
      [] stage = 2 -> Return(r)

\* Parser.type_specifier
type_specifier(stage, r) ==
    Return(Expect(Start("Type-specifier", r.ps), KEYWORD, {"int", "void"},
                  "Expected int or void in Type-specifier"))

\* Parser.params
params(stage, r) ==
    LET r0 == Start("Params", r.ps)
    IN CASE stage = 0 ->
              IF IsTok(r.ps, KEYWORD, {"void"})
              THEN Return(AddTok(r0))
              ELSE IF IsTok(r.ps, KEYWORD, {"int"})
              THEN Call("param_prime", 1, ExpectKind(AddTok(r0), ID, Msg("Expected ID in Params")))
              ELSE Return(Fail(r0, Msg("Expected Params: void or int ID ...")))
         [] stage = 1 -> Call("param_list", 2, r)
         [] stage = 2 -> Return(r)

\* Parser.param_list
param_list(stage, r) ==
    LET r0 == Start("Param-list", r.ps)
    IN CASE stage = 0 ->
              IF IsTok(r.ps, SYMBOL, {","})
              THEN Call("param", 1, AddTok(r0))
              ELSE Return(AddEps(r0))
         [] stage = 1 -> Call("param_list", 2, r)
         [] stage = 2 -> Return(r)

\* Parser.param
param(stage, r) ==
    CASE stage = 0 -> Call("declaration_initial", 1, Start("Param", r.ps))
      [] stage = 1 -> Call("param_prime", 2, r)
      [] stage = 2 -> Return(r)

\* Parser.param_prime
param_prime(stage, r) ==
    LET r0 == Start("Param-prime", r.ps)
    IN IF IsTok(r.ps, SYMBOL, {"["})
       THEN Return(Expect(AddTok(r0), SYMBOL, {"]"}, "Expected ] in Param-prime"))
       ELSE Return(AddEps(r0))

\* Parser.compound_stmt
compound_stmt(stage, r) ==
    CASE stage = 0 -> Call("declaration_list", 1, Expect(Start("Compound-stmt", r.ps), SYMBOL, {"{"},
                                                         "Expected { in Compound-stmt"))
      [] stage = 1 -> Call("statement_list", 2, r)
      [] stage = 2 -> Return(Expect(r, SYMBOL, {"}"}, "Expected } in Compound-stmt"))

\* Parser.statement_list: the condition of the while loop
StartsStatement(ps) ==
    \/ IsKind(ps, ID)
    \/ IsTok(ps, SYMBOL, {"{"})
    \/ IsTok(ps, KEYWORD, {"if", "for", "return", "break"})
    \/ IsTok(ps, SYMBOL, {";"})

\* Parser.statement_list: every stage is the head of the while loop
statement_list(stage, r) ==
    LET r0 == IF stage = 0 THEN Start("Statement-list", r.ps) ELSE r
    IN IF StartsStatement(r0.ps)
       THEN Call("statement", 1, r0)
       ELSE Return(IF r0.node.children = <<>> THEN AddEps(r0) ELSE r0)

\* Parser.statement: it returns the node of the statement it dispatches to
statement(stage, r) ==
    IF stage = 0
    THEN (IF IsTok(r.ps, SYMBOL, {"{"}) THEN CallReturn("compound_stmt", 1, r)
          ELSE IF IsTok(r.ps, KEYWORD, {"if"}) THEN CallReturn("selection_stmt", 1, r)
          ELSE IF IsTok(r.ps, KEYWORD, {"for"}) THEN CallReturn("iteration_stmt", 1, r)
          ELSE IF IsTok(r.ps, KEYWORD, {"return"}) THEN CallReturn("return_stmt", 1, r)
          ELSE CallReturn("expression_stmt", 1, r))
    ELSE Return(r)

\* Parser.expression_stmt
expression_stmt(stage, r) ==
    LET r0 == Start("Expression-stmt", r.ps)
    IN IF stage = 0
       THEN (IF IsTok(r.ps, KEYWORD, {"break"})
             THEN Return(Expect(AddTok(r0), SYMBOL, {";"}, "Expected ; after break"))
             ELSE IF IsTok(r.ps, SYMBOL, {";"})
             THEN Return(AddTok(r0))
             ELSE Call("expression", 1, r0))
       ELSE Return(Expect(r, SYMBOL, {";"}, "Expected ; after expression"))

\* selection_stmt that leaves every "else" to its caller
selection_stmt_ElseNeverTaken(stage, r) ==
    CASE stage = 0 ->
           Call("expression", 1,
                Expect(Expect(Start("Selection-stmt", r.ps), KEYWORD, {"if"},
                              "Expected if in Selection-stmt"),
                       SYMBOL, {"("}, "Expected ( after if"))
      [] stage = 1 -> Call("statement", 2, Expect(r, SYMBOL, {")"}, "Expected ) after if condition"))
      [] stage = 2 -> Return(AddEps(r))
      [] stage = 3 -> Return(r)

\* Parser.selection_stmt
selection_stmt(stage, r) ==
    CASE stage = 0 ->
           Call("expression", 1,
                Expect(Expect(Start("Selection-stmt", r.ps), KEYWORD, {"if"},
                              "Expected if in Selection-stmt"),
                       SYMBOL, {"("}, "Expected ( after if"))
      [] stage = 1 -> Call("statement", 2, Expect(r, SYMBOL, {")"}, "Expected ) after if condition"))
      [] stage = 2 ->
           IF IsTok(r.ps, KEYWORD, {"else"})
           THEN Call("statement", 3, AddTok(r))
           ELSE Return(AddEps(r))
      [] stage = 3 -> Return(r)

\* Parser.iteration_stmt
iteration_stmt(stage, r) ==
    CASE stage = 0 ->
           Call("expression", 1,
                Expect(Expect(Start("Iteration-stmt", r.ps), KEYWORD, {"for"},
                              "Expected for in Iteration-stmt"),
                       SYMBOL, {"("}, "Expected ( after for"))
      [] stage = 1 -> Call("expression", 2, Expect(r, SYMBOL, {";"}, "Expected ; in for header"))
      [] stage = 2 -> Call("expression", 3, Expect(r, SYMBOL, {";"}, "Expected ; in for header (2)"))
      [] stage = 3 -> Call("compound_stmt", 4, Expect(r, SYMBOL, {")"}, "Expected ) after for header"))
      [] stage = 4 -> Return(r)

\* Parser.return_stmt
return_stmt(stage, r) ==
    LET r1 == Expect(Start("Return-stmt", r.ps), KEYWORD, {"return"}, "Expected return")
    IN IF stage = 0
       THEN (IF IsTok(r1.ps, SYMBOL, {";"})
             THEN Return(AddTok(r1))
             ELSE Call("expression", 1, r1))
       ELSE Return(Expect(r, SYMBOL, {";"}, "Expected ; after return expression"))

\* Parser.expression
expression(stage, r) ==
    LET r0 == Start("Expression", r.ps)
    IN IF stage = 0
       THEN (IF IsKind(r.ps, ID)
             THEN Call("B", 1, AddTok(r0))
             ELSE Call("simple_expression_zegond", 1, r0))
       ELSE Return(r)

\* Parser.B
B(stage, r) ==
    LET r0 == Start("B", r.ps)
    IN CASE stage = 0 ->
              IF IsTok(r.ps, SYMBOL, {"="})
              THEN Call("expression", 3, AddTok(r0))
              ELSE IF IsTok(r.ps, SYMBOL, {"["})
              THEN Call("expression", 1, AddTok(r0))
              ELSE Call("simple_expression_prime", 3, r0)
         [] stage = 1 -> Call("H", 2, Expect(r, SYMBOL, {"]"}, "Expected ] in B"))
         [] stage \in {2, 3} -> Return(r)

\* Parser.H
H(stage, r) ==
    LET r0 == Start("H", r.ps)
    IN CASE stage = 0 ->
              IF IsTok(r.ps, SYMBOL, {"="})
              THEN Call("expression", 4, AddTok(r0))
              ELSE Call("G", 1, r0)
         [] stage = 1 -> Call("D", 2, r)
         [] stage = 2 -> Call("C", 3, r)
         [] stage \in {3, 4} -> Return(r)

\* Parser.simple_expression_zegond
simple_expression_zegond(stage, r) ==
    CASE stage = 0 -> Call("additive_expression_zegond", 1, Start("Simple-expression-zegond", r.ps))
      [] stage = 1 -> Call("C", 2, r)
      [] stage = 2 -> Return(r)

\* Parser.simple_expression_prime
simple_expression_prime(stage, r) ==
    CASE stage = 0 -> Call("additive_expression_prime", 1, Start("Simple-expression-prime", r.ps))
      [] stage = 1 -> Call("C", 2, r)
      [] stage = 2 -> Return(r)

\* "node.add(Node(label)); node.children[-1].add(TokenNode(self.cur())); self.advance()"
AddTokUnder(r, label) ==
    [node |-> add(r.node, add(Node(label), TokenNode(cur(r.ps)))), ps |-> Parser_advance(r.ps)]

\* Parser.C: the operator is attached under a node labelled Relop
C(stage, r) ==
    LET r0 == Start("C", r.ps)
    IN IF stage = 0
       THEN (IF IsTok(r.ps, SYMBOL, {"==", "<"})
             THEN Call("additive_expression", 1, AddTokUnder(r0, "Relop"))
             ELSE Return(AddEps(r0)))
       ELSE Return(r)

\* Parser.additive_expression
additive_expression(stage, r) ==
    CASE stage = 0 -> Call("term", 1, Start("Additive-expression", r.ps))
      [] stage = 1 -> Call("D", 2, r)
      [] stage = 2 -> Return(r)

\* Parser.additive_expression_prime
additive_expression_prime(stage, r) ==
    CASE stage = 0 -> Call("term_prime", 1, Start("Additive-expression-prime", r.ps))
      [] stage = 1 -> Call("D", 2, r)
      [] stage = 2 -> Return(r)

\* Parser.additive_expression_zegond
additive_expression_zegond(stage, r) ==
    CASE stage = 0 -> Call("term_zegond", 1, Start("Additive-expression-zegond", r.ps))
      [] stage = 1 -> Call("D", 2, r)
      [] stage = 2 -> Return(r)

\* Parser.D: the operator is attached under a node labelled Addop
D(stage, r) ==
    LET r0 == Start("D", r.ps)
    IN CASE stage = 0 ->
              IF IsTok(r.ps, SYMBOL, {"+", "-"})
              THEN Call("term", 1, AddTokUnder(r0, "Addop"))
              ELSE Return(AddEps(r0))
         [] stage = 1 -> Call("D", 2, r)
         [] stage = 2 -> Return(r)

\* Parser.term
term(stage, r) ==
    CASE stage = 0 -> Call("signed_factor", 1, Start("Term", r.ps))
      [] stage = 1 -> Call("G", 2, r)
      [] stage = 2 -> Return(r)

\* Parser.term_prime
term_prime(stage, r) ==
    CASE stage = 0 -> Call("factor_prime", 1, Start("Term-prime", r.ps))
      [] stage = 1 -> Call("G", 2, r)
      [] stage = 2 -> Return(r)

\* Parser.term_zegond
term_zegond(stage, r) ==
    CASE stage = 0 -> Call("signed_factor_zegond", 1, Start("Term-zegond", r.ps))
      [] stage = 1 -> Call("G", 2, r)
      [] stage = 2 -> Return(r)

\* Parser.G
G(stage, r) ==
    LET r0 == Start("G", r.ps)
    IN CASE stage = 0 ->
              IF IsTok(r.ps, SYMBOL, {"*", "/"})
              THEN Call("signed_factor", 1, AddTok(r0))
              ELSE Return(AddEps(r0))
         [] stage = 1 -> Call("G", 2, r)
         [] stage = 2 -> Return(r)

\* Parser.signed_factor
signed_factor(stage, r) ==
    LET r0 == Start("Signed-factor", r.ps)
    IN IF stage = 0
       THEN (IF IsTok(r.ps, SYMBOL, {"+", "-"})
             THEN Call("factor", 1, AddTok(r0))
             ELSE Call("factor", 1, r0))
       ELSE Return(r)

\* Parser.signed_factor_zegond
signed_factor_zegond(stage, r) ==
    LET r0 == Start("Signed-factor-zegond", r.ps)
    IN IF stage = 0
       THEN (IF IsTok(r.ps, SYMBOL, {"+", "-"})
             THEN Call("factor", 1, AddTok(r0))
             ELSE Call("factor_zegond", 1, r0))
       ELSE Return(r)

\* Parser.factor
factor(stage, r) ==
    LET r0 == Start("Factor", r.ps)
    IN CASE stage = 0 ->
              IF IsTok(r.ps, SYMBOL, {"("}) THEN Call("expression", 1, AddTok(r0))
              ELSE IF IsKind(r.ps, ID) THEN Call("var_call_prime", 2, AddTok(r0))
              ELSE IF IsKind(r.ps, NUM) THEN Return(AddTok(r0))
              ELSE Return(Fail(r0, Msg("Unexpected token in Factor")))
         [] stage = 1 -> Return(Expect(r, SYMBOL, {")"}, "Expected ) in Factor"))
         [] stage = 2 -> Return(r)

\* Parser.var_call_prime
var_call_prime(stage, r) ==
    LET r0 == Start("Var-call-prime", r.ps)
    IN CASE stage = 0 ->
              IF IsTok(r.ps, SYMBOL, {"("})
              THEN Call("args", 1, AddTok(r0))
              ELSE Call("var_prime", 2, r0)
         [] stage = 1 -> Return(Expect(r, SYMBOL, {")"}, "Expected ) in Var-call-prime"))
         [] stage = 2 -> Return(r)

\* Parser.var_prime
var_prime(stage, r) ==
    LET r0 == Start("Var-prime", r.ps)
    IN IF stage = 0
       THEN (IF IsTok(r.ps, SYMBOL, {"["})
             THEN Call("expression", 1, AddTok(r0))
             ELSE Return(AddEps(r0)))
       ELSE Return(Expect(r, SYMBOL, {"]"}, "Expected ] in Var-prime"))

\* Parser.factor_prime
factor_prime(stage, r) ==
    LET r0 == Start("Factor-prime", r.ps)
    IN IF stage = 0
       THEN (IF IsTok(r.ps, SYMBOL, {"("})
             THEN Call("args", 1, AddTok(r0))
             ELSE Return(AddEps(r0)))
       ELSE Return(Expect(r, SYMBOL, {")"}, "Expected ) in Factor-prime"))

\* Parser.factor_zegond
factor_zegond_EmptyAccepted(stage, r) ==
    LET r0 == Start("Factor-zegond", r.ps)
    IN IF stage = 0
       THEN (IF IsTok(r.ps, SYMBOL, {"("}) THEN Call("expression", 1, AddTok(r0))
             ELSE IF IsKind(r.ps, NUM) THEN Return(AddTok(r0))
             ELSE IF IsTok(r.ps, SYMBOL, {";"}) THEN Return(AddEps(r0))
             ELSE Return(Fail(r0, Msg("Unexpected token in Factor-zegond"))))
       ELSE Return(Expect(r, SYMBOL, {")"}, "Expected ) in Factor-zegond"))

factor_zegond(stage, r) ==
    LET r0 == Start("Factor-zegond", r.ps)
    IN IF stage = 0
       THEN (IF IsTok(r.ps, SYMBOL, {"("}) THEN Call("expression", 1, AddTok(r0))
             ELSE IF IsKind(r.ps, NUM) THEN Return(AddTok(r0))
             ELSE Return(Fail(r0, Msg("Unexpected token in Factor-zegond"))))
       ELSE Return(Expect(r, SYMBOL, {")"}, "Expected ) in Factor-zegond"))

\* Parser.args
args(stage, r) ==
    LET r0 == Start("Args", r.ps)
    IN IF stage = 0
       THEN (IF IsTok(r.ps, SYMBOL, {")"})
             THEN Return(AddEps(r0))
             ELSE Call("arg_list", 1, r0))
       ELSE Return(r)

\* Parser.arg_list
arg_list(stage, r) ==
    CASE stage = 0 -> Call("expression", 1, Start("Arg-list", r.ps))
      [] stage = 1 -> Call("arg_list_prime", 2, r)
      [] stage = 2 -> Return(r)

\* Parser.arg_list_prime
arg_list_prime(stage, r) ==
    LET r0 == Start("Arg-list-prime", r.ps)
    IN CASE stage = 0 ->
              IF IsTok(r.ps, SYMBOL, {","})
              THEN Call("expression", 1, AddTok(r0))
              ELSE Return(AddEps(r0))
         [] stage = 1 -> Call("arg_list_prime", 2, r)
         [] stage = 2 -> Return(r)

\* the grammar function of a frame, run from its stage
Body(fn, stage, r) ==
    CASE fn = "parse" -> parse(stage, r)
      [] fn = "declaration_list" -> declaration_list(stage, r)
      [] fn = "declaration" -> declaration(stage, r)
      [] fn = "declaration_initial" -> declaration_initial(stage, r)
      [] fn = "declaration_prime" -> declaration_prime(stage, r)
      [] fn = "var_declaration_prime" -> var_declaration_prime(stage, r)
      [] fn = "fun_declaration_prime" -> fun_declaration_prime(stage, r)
      [] fn = "type_specifier" -> type_specifier(stage, r)
      [] fn = "params" -> params(stage, r)
      [] fn = "param_list" -> param_list(stage, r)
      [] fn = "param" -> param(stage, r)
      [] fn = "param_prime" -> param_prime(stage, r)
      [] fn = "compound_stmt" -> compound_stmt(stage, r)
      [] fn = "statement_list" -> statement_list(stage, r)
      [] fn = "statement" -> statement(stage, r)
      [] fn = "expression_stmt" -> expression_stmt(stage, r)
      [] fn = "selection_stmt" -> selection_stmt(stage, r)
      [] fn = "iteration_stmt" -> iteration_stmt(stage, r)
      [] fn = "return_stmt" -> return_stmt(stage, r)
      [] fn = "expression" -> expression(stage, r)
      [] fn = "B" -> B(stage, r)
      [] fn = "H" -> H(stage, r)
      [] fn = "simple_expression_zegond" -> simple_expression_zegond(stage, r)
      [] fn = "simple_expression_prime" -> simple_expression_prime(stage, r)
      [] fn = "C" -> C(stage, r)
      [] fn = "additive_expression" -> additive_expression(stage, r)
      [] fn = "additive_expression_prime" -> additive_expression_prime(stage, r)
      [] fn = "additive_expression_zegond" -> additive_expression_zegond(stage, r)
      [] fn = "D" -> D(stage, r)
      [] fn = "term" -> term(stage, r)
      [] fn = "term_prime" -> term_prime(stage, r)
      [] fn = "term_zegond" -> term_zegond(stage, r)
      [] fn = "G" -> G(stage, r)
      [] fn = "signed_factor" -> signed_factor(stage, r)
      [] fn = "signed_factor_zegond" -> signed_factor_zegond(stage, r)
      [] fn = "factor" -> factor(stage, r)
      [] fn = "var_call_prime" -> var_call_prime(stage, r)
      [] fn = "var_prime" -> var_prime(stage, r)
      [] fn = "factor_prime" -> factor_prime(stage, r)
      [] fn = "factor_zegond" -> factor_zegond(stage, r)
      [] fn = "args" -> args(stage, r)
      [] fn = "arg_list" -> arg_list(stage, r)
      [] fn = "arg_list_prime" -> arg_list_prime(stage, r)

-----------------------------------------------------------------------------
(* The runner of compiler.py: a Parser is constructed on a token list that   *)
(* ends with EOF, and parse() is called once.  The inputs come first.         *)

\* KEYWORDS_LIST
KEYWORDS_LIST == {"if", "else", "void", "int", "for", "break", "return"}

\* SYMBOLS_LIST
SYMBOLS_LIST == {";", ":", ",", "[", "]", "(", ")", "{", "}", "+", "-", "*", "/", "=", "<", "=="}

\* the numerals and the illegal characters that occur in the inputs
Numerals == {"0", "1", "2"}
IllegalWords == {"@"}

\* scan(): the kind given to a lexeme
KindOf(word) ==
    IF word \in Numerals THEN NUM
    ELSE IF word \in KEYWORDS_LIST THEN KEYWORD
    ELSE IF word \in SYMBOLS_LIST THEN SYMBOL
    ELSE IF word \in IllegalWords THEN ERROR
    ELSE ID

\* scan() on a one-line text whose lexemes are words: the tokens, closed by
\* Token(EOF, '$').  The column is the ordinal of the token.
TokensOf(words) ==
    [k \in 1..(Len(words) + 1) |->
        IF k <= Len(words) THEN ParserToken(KindOf(words[k]), words[k], 1, k)
                           ELSE ParserToken(EOF, "$", 1, k)]

\* longest enumerated token list, EOF not counted
MaxTokens == 3

\* the lexemes the enumerated token lists are drawn from
Words == {"int", "void", "if", "a", "1", ";", "(", ")", "{", "}", "=", "@"}

ShortWordLists == UNION {[1..n -> Words] : n \in 0..MaxTokens}

\* void main(void) { int a; a = 0; return; }
S5Words == <<"void", "main", "(", "void", ")", "{", "int", "a", ";",
             "a", "=", "0", ";", "return", ";", "}">>

\* if (x) if (y) a = 1; else a = 2;
S6Words == <<"if", "(", "x", ")", "if", "(", "y", ")", "a", "=", "1", ";",
             "else", "a", "=", "2", ";">>

\* void main(void) { if (x) if (y) a = 1; else a = 2; }
S6InFunctionWords == <<"void", "main", "(", "void", ")", "{">> \o S6Words \o <<"}">>

\* void main(void) { 1; }
NumStatementWords == <<"void", "main", "(", "void", ")", "{", "1", ";", "}">>

\* void main(void) { (a); -a; +1; }
ZegondStatementWords == <<"void", "main", "(", "void", ")", "{", "(", "a", ")", ";",
                          "-", "a", ";", "+", "1", ";", "}">>

\* void main(void) { for (i = 0; i < 2; i = i + 1) { break; } }
ForWords == <<"void", "main", "(", "void", ")", "{", "for", "(", "i", "=", "0", ";",
              "i", "<", "2", ";", "i", "=", "i", "+", "1", ")", "{", "break", ";", "}", "}">>

\* void main(void) { for (;;) { } }
EmptyForWords == <<"void", "main", "(", "void", ")", "{", "for", "(", ";", ";", ")",
                   "{", "}", "}">>

\* void main(void) { for (i = 0; ; i) { } }
EmptySecondForWords == <<"void", "main", "(", "void", ")", "{", "for", "(", "i", "=", "0", ";",
                         ";", "i", ")", "{", "}", "}">>

\* void main(void) { for (i = 0; i < 2; ;) { } }
EmptyThirdForWords == <<"void", "main", "(", "void", ")", "{", "for", "(", "i", "=", "0", ";",
                        "i", "<", "2", ";", ";", ")", "{", "}", "}">>

\* int a[2]; int f(int x, int y[]) { return x * (y[0] - 1); }
ArrayParamWords == <<"int", "a", "[", "2", "]", ";", "int", "f", "(", "int", "x", ",",
                     "int", "y", "[", "]", ")", "{", "return", "x", "*", "(", "y", "[",
                     "0", "]", "-", "1", ")", ";", "}">>

\* void g(void) { a = f(1, b); a[1] = 2; a[0] / 2 + 1 == 2; f(); }
CallWords == <<"void", "g", "(", "void", ")", "{", "a", "=", "f", "(", "1", ",", "b", ")", ";",
               "a", "[", "1", "]", "=", "2", ";", "a", "[", "0", "]", "/", "2", "+", "1",
               "==", "2", ";", "f", "(", ")", ";", "}">>

\* int a b c; int d;
SyncWords == <<"int", "a", "b", "c", ";", "int", "d", ";">>

\* int a; } a = 1;
LeftOverWords == <<"int", "a", ";", "}", "a", "=", "1", ";">>

\* void f(void) { if (x) { if (y) ; } else ; }
ElseAfterBlockWords == <<"void", "f", "(", "void", ")", "{", "if", "(", "x", ")", "{",
                         "if", "(", "y", ")", ";", "}", "else", ";", "}">>

\* void f(void) { if (x) if (y) ; else ; else a = 1; }
TwoElseWords == <<"void", "f", "(", "void", ")", "{", "if", "(", "x", ")",
                  "if", "(", "y", ")", ";", "else", ";", "else", "a", "=", "1", ";", "}">>

\* void f(void) { a = ( ( ( ... : an expression that opens parentheses, nested
\* as deeply as the interpreter's stack allows and one deeper
DeepParenWords ==
    <<"void", "f", "(", "void", ")", "{", "a", "=">> \o
        [k \in 1..((RecursionLimit - 16) \div 6) |-> "("]

ScenarioWordLists ==
    {S5Words, S6Words, S6InFunctionWords, NumStatementWords, ZegondStatementWords, ForWords,
     EmptyForWords, EmptySecondForWords, EmptyThirdForWords, ArrayParamWords, CallWords, SyncWords, LeftOverWords,
     ElseAfterBlockWords, TwoElseWords}

ParserInputs == {TokensOf(w) : w \in ShortWordLists \cup ScenarioWordLists \cup {DeepParenWords}}

\* the Parser object, the call stack of its grammar functions and the tree
\* of the runner
ParserObject(state, ps, stack, tree) ==
    [state |-> state, i |-> ps.i, errors |-> ps.errors, g_trace |-> ps.g_trace,
     stack |-> stack, tree |-> tree, lines |-> <<>>, files |-> NoFiles]

\* the fields of the Parser object
PsOf(p) == [i |-> p.i, errors |-> p.errors, g_trace |-> p.g_trace]

\* "parser = Parser(tokens)"
InitParser ==
    /\ tokens \in ParserInputs
    /\ parser = ParserObject("constructed", NewParser, <<>>, NoTree)
    /\ src = <<>>
    /\ scanner = NewScanner
    /\ lines_output = <<>>
    /\ tok = NoTok
    /\ returned = <<>>
    /\ pc = "loop"
    /\ frame = 0
    /\ extra = 0

\* the running grammar function and its next move
Top == parser.stack[Len(parser.stack)]
Move == Body(Top.fn, Top.stage, [node |-> Top.node, ps |-> PsOf(parser)])

\* the interpreter frame of the running grammar function: the module is frame
\* 1, parse() is frame 2, and every grammar function on the call stack adds one
FrameDepth == Len(parser.stack) + 1

\* the interpreter levels the move stacks on top of the grammar function:
\* self.cur() and node.add(...) are one call; Node(...) is the call of the
\* class and of __init__, two; self.advance() calls self.cur(), and
\* self.error(...) at EOF calls self.cur(), two; TokenNode(...) is the call of
\* the class, of __init__ and of Node.__init__, and self.error(...) before EOF
\* calls self.advance(), which calls self.cur(), three.  Every grammar
\* function creates a Node, except statement(); the lookahead moves in
\* "node.add(TokenNode(self.cur())); self.advance()" and in self.error(...)
\* before EOF only (the synchronisation loop of var_declaration_prime runs
\* after such an error).
HelperFrames ==
    IF Move.r.ps.i # parser.i THEN 3
    ELSE IF Top.fn = "statement" THEN 1
    ELSE 2

\* the interpreter raises RecursionError on the call that would make the
\* stack deeper than RecursionLimit
ParserRecursionExceeded == FrameDepth + HelperFrames > RecursionLimit

\* "tree = parser.parse()": the call
CallParse ==
    /\ parser.state = "constructed"
    /\ parser' = [parser EXCEPT !.state = "parsing", !.stack = <<Frame("parse", parser.i)>>]
    /\ UNCHANGED <<tokens, scanVars>>

\* the running grammar function runs up to its next call of a grammar function
ParserCall ==
    /\ parser.state = "parsing"
    /\ ~ParserRecursionExceeded
    /\ Move.kind = "call"
    /\ LET caller == [fn |-> Top.fn, stage |-> Move.stage, node |-> Move.r.node,
                      mode |-> Move.mode, g_entry |-> Top.g_entry]
           stack == [parser.stack EXCEPT ![Len(parser.stack)] = caller]
       IN parser' = ParserObject("parsing", Move.r.ps, Append(stack, Frame(Move.fn, Move.r.ps.i)), NoTree)
    /\ UNCHANGED <<tokens, scanVars>>

\* the running grammar function runs up to its return; its caller attaches
\* the node ("node.add(self.fn())") or takes it as its own result ("return
\* self.fn()")
ParserReturn ==
    /\ parser.state = "parsing"
    /\ ~ParserRecursionExceeded
    /\ Move.kind = "return"
    /\ Len(parser.stack) > 1
    /\ LET n == Len(parser.stack)
           caller == parser.stack[n - 1]
           node == IF caller.mode = "add" THEN add(caller.node, Move.r.node) ELSE Move.r.node
           stack == [SubSeq(parser.stack, 1, n - 1) EXCEPT ![n - 1].node = node]
       IN parser' = ParserObject("parsing", Move.r.ps, stack, NoTree)
    /\ UNCHANGED <<tokens, scanVars>>

\* "tree = parser.parse()": parse() returns the root
ParseReturns ==
    /\ parser.state = "parsing"
    /\ ~ParserRecursionExceeded
    /\ Move.kind = "return"
    /\ Len(parser.stack) = 1
    /\ parser' = ParserObject("parsed", Move.r.ps, <<>>, Move.r.node)
    /\ UNCHANGED <<tokens, scanVars>>

\* "tree = parser.parse()": RecursionError leaves parse(); the runner does not
\* catch it, no tree is returned and no output file is written
ParseRaises ==
    /\ parser.state = "parsing"
    /\ ParserRecursionExceeded
    /\ parser' = ParserObject("raised", PsOf(parser), <<>>, NoTree)
    /\ UNCHANGED <<tokens, scanVars>>

\* a syntax-error message as the string the code built: the text, and the
\* "{line}:{col}" formatted into it where the call site does so
Formatted(e) ==
    IF e.line = NoLine THEN <<e.msg>> ELSE <<e.msg, e.line, ":", e.col>>

\* the rest of the runner: the tree is rendered and parse_tree.txt gets every
\* line followed by a newline; syntax_errors.txt gets every error followed by
\* a newline, or the sentence that there is none
WriteOutputs ==
    /\ parser.state = "parsed"
    /\ LET lines == tree_to_lines(parser.tree, <<>>, TRUE)
       IN parser' = [parser EXCEPT
            !.state = "written",
            !.lines = lines,
            !.files = [parse_tree |-> [k \in 1..Len(lines) |-> lines[k] \o <<"\n">>],
                       syntax_errors |->
                           IF parser.errors # <<>>
                           THEN [k \in 1..Len(parser.errors) |->
                                    Formatted(parser.errors[k]) \o <<"\n">>]
                           ELSE << <<"No syntax errors.\n">> >>]]
    /\ UNCHANGED <<tokens, scanVars>>

NextParser ==
    CallParse \/ ParserCall \/ ParserReturn \/ ParseReturns \/ ParseRaises \/ WriteOutputs

SpecParser == InitParser /\ [][NextParser]_vars

-----------------------------------------------------------------------------
(* Scanner/compiler.py: scan(source), the scanner the parser's runner uses.  *)
(* A lexeme it cuts from a source text is a sequence of characters.           *)

\* WHITESPACE_CHARS; "VT" stands for the vertical tab '\v'
WHITESPACE_CHARS == {" ", "\n", "\r", "\t", "VT", "\f"}

\* KEYWORDS_LIST, each word spelled as a sequence of characters
KEYWORDS_LIST_Spelled ==
    { <<"i","f">>, <<"e","l","s","e">>, <<"v","o","i","d">>, <<"i","n","t">>,
      <<"f","o","r">>, <<"b","r","e","a","k">>, <<"r","e","t","u","r","n">> }

\* ''.join(set(''.join(SYMBOLS_LIST))): the characters of the symbols
SymbolChars == {";", ":", ",", "[", "]", "(", ")", "{", "}", "+", "-", "*", "/", "=", "<"}

\* the local variables i, line, col of scan()
ScanState(i, line, col) == [i |-> i, line |-> line, col |-> col]

\* one character is passed over: a newline starts a line, col goes back to 1
ScanPass(s) ==
    IF CharAt(s.i) = "\n" THEN ScanState(s.i + 1, s.line + 1, 1)
    ELSE ScanState(s.i + 1, s.line, s.col + 1)

\* the inner loop of the comment case: up to "*/" or the end of the source
RECURSIVE ScanCommentBody(_)
ScanCommentBody(s) ==
    IF s.i < Length /\ ~(CharAt(s.i) = "*" /\ CharAt(s.i + 1) = "/")
    THEN ScanCommentBody(ScanPass(s))
    ELSE s

\* the comment case: "/*", the body, and "*/" if the source has it
ScanComment(s) ==
    LET c == ScanCommentBody(ScanState(s.i + 2, s.line, s.col + 2))
    IN IF c.i < Length THEN ScanState(c.i + 2, c.line, c.col + 2) ELSE c

\* "while j < n and source[j].isdigit(): j += 1"
RECURSIVE ScanDigitsEnd(_)
ScanDigitsEnd(j) == IF j < Length /\ isdigit(CharAt(j)) THEN ScanDigitsEnd(j + 1) ELSE j

\* "while j < n and (source[j].isalnum() or source[j] == '_'): j += 1"
RECURSIVE ScanWordEnd(_)
ScanWordEnd(j) ==
    IF j < Length /\ (isalnum(CharAt(j)) \/ CharAt(j) = "_") THEN ScanWordEnd(j + 1) ELSE j

\* the token cut at s, which ends before position j
ScanToken(typ, s, j) == ParserToken(typ, Slice(s.i, j), s.line, s.col)

\* the while loop of scan() from state s on, and the final EOF token
RECURSIVE ScanLoop(_, _)
ScanLoop(s, toks) ==
    IF s.i >= Length THEN Append(toks, ParserToken(EOF, <<"$">>, s.line, s.col))
    ELSE LET ch == CharAt(s.i)
             cut(typ, j) == ScanLoop(ScanState(j, s.line, s.col + (j - s.i)),
                                     Append(toks, ScanToken(typ, s, j)))
         IN IF ch \in WHITESPACE_CHARS THEN ScanLoop(ScanPass(s), toks)
            ELSE IF ch = "/" /\ CharAt(s.i + 1) = "*" THEN ScanLoop(ScanComment(s), toks)
            ELSE IF isdigit(ch) THEN cut(NUM, ScanDigitsEnd(s.i))
            ELSE IF isalpha(ch) \/ ch = "_"
                 THEN LET j == ScanWordEnd(s.i) IN
                      cut(IF Slice(s.i, j) \in KEYWORDS_LIST_Spelled THEN KEYWORD ELSE ID, j)
            ELSE IF ch = "=" /\ CharAt(s.i + 1) = "=" THEN cut(SYMBOL, s.i + 2)
            ELSE IF ch \in SymbolChars THEN cut(SYMBOL, s.i + 1)
            ELSE cut(ERROR, s.i + 1)

\* scan(source) on the source text src
scan == ScanLoop(ScanState(0, 1, 1), <<>>)

\* "tokens = scan(source)" of the runner, on a text that lexical.py's main()
\* has scanned to its end
RunScan ==
    /\ pc = "done"
    /\ tokens = <<>>
    /\ tokens' = scan
    /\ UNCHANGED <<scanVars, parser>>

\* main() of lexical.py runs to its end, then the runner of compiler.py
\* scans the same text
NextScan == MainLoop \/ Recurse \/ RunScan

\* both scanners run on the same source text, Scanner first
SpecScan == Init /\ [][NextScan]_vars

-----------------------------------------------------------------------------
(* Vocabulary of the parser properties: the CM grammar, trees, derivability  *)

\* the CM grammar: for every non-terminal the right-hand sides of its
\* productions.  A terminal is a lexeme, or the kind ID or NUM; "epsilon" is
\* the empty right-hand side.
Productions ==
    [nt \in {"Program"} |-> {<<"Declaration-list">>}] @@
    [nt \in {"Declaration-list"} |-> {<<"Declaration", "Declaration-list">>, <<"epsilon">>}] @@
    [nt \in {"Declaration"} |-> {<<"Declaration-initial", "Declaration-prime">>}] @@
    [nt \in {"Declaration-initial"} |-> {<<"Type-specifier", "ID">>}] @@
    [nt \in {"Declaration-prime"} |-> {<<"Fun-declaration-prime">>, <<"Var-declaration-prime">>}] @@
    [nt \in {"Var-declaration-prime"} |-> {<<";">>, <<"[", "NUM", "]", ";">>}] @@
    [nt \in {"Fun-declaration-prime"} |-> {<<"(", "Params", ")", "Compound-stmt">>}] @@
    [nt \in {"Type-specifier"} |-> {<<"int">>, <<"void">>}] @@
    [nt \in {"Params"} |-> {<<"void">>, <<"int", "ID", "Param-prime", "Param-list">>}] @@
    [nt \in {"Param-list"} |-> {<<",", "Param", "Param-list">>, <<"epsilon">>}] @@
    [nt \in {"Param"} |-> {<<"Declaration-initial", "Param-prime">>}] @@
    [nt \in {"Param-prime"} |-> {<<"[", "]">>, <<"epsilon">>}] @@
    [nt \in {"Compound-stmt"} |-> {<<"{", "Declaration-list", "Statement-list", "}">>}] @@
    [nt \in {"Statement-list"} |-> {<<"Statement", "Statement-list">>, <<"epsilon">>}] @@
    [nt \in {"Statement"} |-> {<<"Expression-stmt">>, <<"Compound-stmt">>, <<"Selection-stmt">>,
                               <<"Iteration-stmt">>, <<"Return-stmt">>}] @@
    [nt \in {"Expression-stmt"} |-> {<<"Expression", ";">>, <<"break", ";">>, <<";">>}] @@
    [nt \in {"Selection-stmt"} |->
        {<<"if", "(", "Expression", ")", "Statement", "else", "Statement">>,
         <<"if", "(", "Expression", ")", "Statement", "epsilon">>}] @@
    [nt \in {"Iteration-stmt"} |->
        {<<"for", "(", "Expression", ";", "Expression", ";", "Expression", ")", "Compound-stmt">>}] @@
    [nt \in {"Return-stmt"} |-> {<<"return", ";">>, <<"return", "Expression", ";">>}] @@
    [nt \in {"Expression"} |-> {<<"ID", "B">>, <<"Simple-expression-zegond">>}] @@
    [nt \in {"B"} |-> {<<"=", "Expression">>, <<"[", "Expression", "]", "H">>,
                       <<"Simple-expression-prime">>}] @@
    [nt \in {"H"} |-> {<<"=", "Expression">>, <<"G", "D", "C">>}] @@
    [nt \in {"Simple-expression-zegond"} |-> {<<"Additive-expression-zegond", "C">>}] @@
    [nt \in {"Simple-expression-prime"} |-> {<<"Additive-expression-prime", "C">>}] @@
    [nt \in {"C"} |-> {<<"==", "Additive-expression">>, <<"<", "Additive-expression">>,
                       <<"epsilon">>}] @@
    [nt \in {"Additive-expression"} |-> {<<"Term", "D">>}] @@
    [nt \in {"Additive-expression-prime"} |-> {<<"Term-prime", "D">>}] @@
    [nt \in {"Additive-expression-zegond"} |-> {<<"Term-zegond", "D">>}] @@
    [nt \in {"D"} |-> {<<"+", "Term", "D">>, <<"-", "Term", "D">>, <<"epsilon">>}] @@
    [nt \in {"Term"} |-> {<<"Signed-factor", "G">>}] @@
    [nt \in {"Term-prime"} |-> {<<"Factor-prime", "G">>}] @@
    [nt \in {"Term-zegond"} |-> {<<"Signed-factor-zegond", "G">>}] @@
    [nt \in {"G"} |-> {<<"*", "Signed-factor", "G">>, <<"/", "Signed-factor", "G">>,
                       <<"epsilon">>}] @@
    [nt \in {"Signed-factor"} |-> {<<"+", "Factor">>, <<"-", "Factor">>, <<"Factor">>}] @@
    [nt \in {"Signed-factor-zegond"} |-> {<<"+", "Factor">>, <<"-", "Factor">>,
                                          <<"Factor-zegond">>}] @@
    [nt \in {"Factor"} |-> {<<"(", "Expression", ")">>, <<"ID", "Var-call-prime">>, <<"NUM">>}] @@
    [nt \in {"Var-call-prime"} |-> {<<"(", "Args", ")">>, <<"Var-prime">>}] @@
    [nt \in {"Var-prime"} |-> {<<"[", "Expression", "]">>, <<"epsilon">>}] @@
    [nt \in {"Factor-prime"} |-> {<<"(", "Args", ")">>, <<"epsilon">>}] @@
    [nt \in {"Factor-zegond"} |-> {<<"(", "Expression", ")">>, <<"NUM">>}] @@
    [nt \in {"Args"} |-> {<<"Arg-list">>, <<"epsilon">>}] @@
    [nt \in {"Arg-list"} |-> {<<"Expression", "Arg-list-prime">>}] @@
    [nt \in {"Arg-list-prime"} |-> {<<",", "Expression", "Arg-list-prime">>, <<"epsilon">>}]

NonTerminals == DOMAIN Productions

\* the terminal sym matches the token t
Matches(sym, t) ==
    IF sym \in {"ID", "NUM"} THEN t.type = sym
    ELSE t.type \in {KEYWORD, SYMBOL} /\ t.lexeme = sym

RECURSIVE Ends(_, _)

\* the numbers j such that the symbols syms derive tokens i + 1 .. j of the
\* token list
Ends(syms, i) ==
    IF syms = <<>> THEN {i}
    ELSE LET sym == Head(syms)
             first == IF sym = "epsilon" THEN {i}
                      ELSE IF sym \in NonTerminals
                      THEN UNION {Ends(rhs, i) : rhs \in Productions[sym]}
                      ELSE IF i + 1 <= Len(tokens) /\ Matches(sym, tokens[i + 1])
                      THEN {i + 1}
                      ELSE {}
         IN UNION {Ends(Tail(syms), j) : j \in first}

\* the tokens before EOF are a program of the CM grammar
ValidProgram ==
    /\ tokens[Len(tokens)].type = EOF
    /\ (Len(tokens) - 1) \in Ends(<<"Program">>, 0)

Parsed == parser.state = "parsed"

RECURSIVE Nodes(_), Leaves(_), LeavesOfAll(_)

\* the nodes of the tree under node, node included
Nodes(node) ==
    {node} \cup UNION {Nodes(node.children[k]) : k \in 1..Len(node.children)}

\* the labels of the token leaves under node, left to right
Leaves(node) ==
    IF node.is_leaf_token THEN <<node.label>> ELSE LeavesOfAll(node.children)

LeavesOfAll(nodes) ==
    IF nodes = <<>> THEN <<>> ELSE Leaves(Head(nodes)) \o LeavesOfAll(Tail(nodes))

\* the grammar symbol a node stands for
SymbolOf(node) ==
    IF node.is_leaf_token
    THEN (IF node.label[2] \in {ID, NUM} THEN node.label[2] ELSE node.label[4])
    ELSE node.label[1]

ChildSymbols(node) == [k \in 1..Len(node.children) |-> SymbolOf(node.children[k])]

IsInternal(node) == ~node.is_leaf_token /\ node.label # <<"epsilon">>

\* node is an instance of one production of the grammar
IsProductionInstance(node) ==
    /\ SymbolOf(node) \in NonTerminals
    /\ ChildSymbols(node) \in Productions[SymbolOf(node)]

\* the children of a list node are <<element, list>> or the single epsilon
IsRightRecursive(node, element) ==
    \/ ChildSymbols(node) = <<element, SymbolOf(node)>>
    \/ ChildSymbols(node) = <<"epsilon">>

-----------------------------------------------------------------------------
(* Parser properties *)

\* C5: every program of the CM grammar is parsed without a syntax error,
\* statements whose expression starts with NUM, '(', '+' or '-' included.
C5_ValidProgramParsesWithoutError ==
    (Parsed /\ ValidProgram) => parser.errors = <<>>

\* C6: for a valid program, the token leaves of the tree returned by parse(),
\* left to right, are the tokens of the input, EOF included.
C6_LeavesAreTokensPlusEOF ==
    (Parsed /\ ValidProgram) =>
        Leaves(parser.tree) = [k \in 1..Len(tokens) |-> TokenNode(tokens[k]).label]

\* C7: in a parse without a syntax error every internal node of the tree is
\* labelled with a non-terminal and its children are the right-hand side of
\* one production of that non-terminal.
C7_TreeIsConcreteParseTree ==
    (Parsed /\ parser.errors = <<>>) =>
        \A node \in Nodes(parser.tree) : IsInternal(node) => IsProductionInstance(node)

\* C8: every Declaration-list node has the children <<Declaration,
\* Declaration-list>> or the single child epsilon, likewise Statement-list,
\* and void main(void) { int a; a = 0; return; } is parsed without a syntax
\* error into a Program with the single child Declaration-list.
C8_ListsAreRightRecursive ==
    Parsed =>
        /\ \A node \in Nodes(parser.tree) :
              /\ node.label = <<"Declaration-list">> => IsRightRecursive(node, "Declaration")
              /\ node.label = <<"Statement-list">> => IsRightRecursive(node, "Statement")
        /\ tokens = TokensOf(S5Words) =>
              /\ parser.errors = <<>>
              /\ ChildSymbols(parser.tree) = <<"Declaration-list">>

\* the Selection-stmt nodes of a tree
SelectionNodes(tree) == {n \in Nodes(tree) : n.label = <<"Selection-stmt">>}

\* the label of the token leaf of the keyword else
ElseLeaf == <<"(", KEYWORD, ", ", "else", ")">>

\* if ( Expression ) Statement else Statement
HasElseBranch(n) ==
    /\ Len(n.children) = 7
    /\ n.children[6].is_leaf_token /\ n.children[6].label = ElseLeaf
    /\ IsInternal(n.children[7])

\* if ( Expression ) Statement epsilon
HasEpsilonElse(n) == Len(n.children) = 6 /\ n.children[6] = epsilon

\* the label of the first token leaf of the nodes, and follow if there is none
FirstLeaf(nodes, follow) ==
    IF LeavesOfAll(nodes) = <<>> THEN follow ELSE Head(LeavesOfAll(nodes))

\* under node, every Selection-stmt without an else branch is followed by a
\* token other than else; follow is the first token leaf after node
RECURSIVE ElseIsNeverLeft(_, _)
ElseIsNeverLeft(node, follow) ==
    /\ (node.label = <<"Selection-stmt">> /\ ~HasElseBranch(node)) => follow # ElseLeaf
    /\ \A k \in 1..Len(node.children) :
           ElseIsNeverLeft(node.children[k],
                           FirstLeaf(SubSeq(node.children, k + 1, Len(node.children)), follow))

\* every token consumed is a leaf: the token leaves of the tree are the
\* tokens before the lookahead, in order
EveryTokenIsALeaf ==
    Leaves(parser.tree) = [k \in 1..parser.i |-> TokenNode(tokens[k]).label]

\* the tree of  void main(void) { if (x) if (y) a = 1; else a = 2; } : two
\* Selection-stmt nodes, the inner one is the Statement of the outer one and
\* has else and the statement a = 2; the outer one has epsilon for its else
NestedIfShape ==
    \E outer \in SelectionNodes(parser.tree), inner \in SelectionNodes(parser.tree) :
        /\ SelectionNodes(parser.tree) = {outer, inner}
        /\ HasEpsilonElse(outer)
        /\ outer.children[5] = inner
        /\ HasElseBranch(inner)
        /\ Leaves(inner.children[5]) = [k \in 1..4 |-> TokenNode(tokens[14 + k]).label]
        /\ Leaves(inner.children[7]) = [k \in 1..4 |-> TokenNode(tokens[19 + k]).label]

\* C20: whenever the token right after the Statement of an if is else, the
\* Selection-stmt takes it: in a finished parse in which every consumed token
\* is a leaf, no Selection-stmt without an else branch is followed by else;
\* and for the nested  if (x) if (y) S1 else S2  in a function body the inner
\* Selection-stmt has the else token and S2, the outer one an epsilon leaf in
\* its else slot.
C20_ElseBindsToNearestIf ==
    Parsed =>
        /\ EveryTokenIsALeaf =>
               ElseIsNeverLeft(parser.tree, TokenNode(tokens[parser.i + 1]).label)
        /\ tokens = TokensOf(S6InFunctionWords) => NestedIfShape

\* C20's case: a finished parse with an if whose Statement is an if with an
\* else branch
C20_Witness ==
    /\ Parsed
    /\ EveryTokenIsALeaf
    /\ \E outer \in SelectionNodes(parser.tree) :
          /\ HasEpsilonElse(outer)
          /\ outer.children[5].label = <<"Selection-stmt">>
          /\ HasElseBranch(outer.children[5])

\* the syntax errors are listed in the order of detection: the lookahead never
\* moves back, so the positions of detection never decrease along the list
InDetectionOrder(errors) ==
    \A j \in 1..Len(errors), k \in 1..Len(errors) : j < k => errors[j].g_at <= errors[k].g_at

\* C21: parse() never aborts: on every token list that ends with EOF it
\* returns, never raises, and what it returns is a node labelled Program, the
\* syntax errors being listed in detection order.
C21_ParseAlwaysCompletes ==
    /\ parser.state # "raised"
    /\ Parsed => /\ parser.tree.label = <<"Program">>
                 /\ InDetectionOrder(parser.errors)

\* C22: every syntax-error record carries the line and the column of the
\* token that was the lookahead when the error was detected.
C22_ErrorsCarryLineAndColumn ==
    \A k \in 1..Len(parser.errors) :
        LET e == parser.errors[k]
        IN /\ e.line = tokens[e.g_at + 1].line
           /\ e.col = tokens[e.g_at + 1].col

RECURSIVE Rendering(_, _, _), RenderingOfChildren(_, _, _)

\* the rendering of the pretty-printer's description: node is the root, a
\* last child or another child ("mid"); prefix is the prefix of its parent,
\* empty for the root and for the children of the root
Rendering(node, prefix, place) ==
    LET line == IF place = "root" THEN node.label
                ELSE prefix \o <<IF place = "last" THEN LastConnector ELSE MidConnector>>
                            \o node.label
        down == IF place = "root" THEN <<>>
                ELSE prefix \o <<IF place = "last" THEN BlankIndent ELSE BarIndent>>
    IN <<line>> \o RenderingOfChildren(node.children, down, 1)

RenderingOfChildren(children, prefix, i) ==
    IF i > Len(children) THEN <<>>
    ELSE Rendering(children[i], prefix, IF i = Len(children) THEN "last" ELSE "mid")
             \o RenderingOfChildren(children, prefix, i + 1)

\* C24: tree_to_lines gives one line per node in depth-first pre-order, the
\* bare label for the root, and for every other node the prefix of its parent,
\* the connector of a last or of another child, and the label; the prefix of
\* the root is empty, so its children start with their connector, and below a
\* child the prefix grows by four blanks or by the bar and three blanks.
C24_TreeRendering ==
    parser.state = "written" => parser.lines = Rendering(parser.tree, <<>>, "root")

\* the Expression of a for header returns to iteration_stmt: the call was the
\* one of header slot 1, 2 or 3
HeaderExpressionReturns(slot) ==
    /\ parser.state = "parsing"
    /\ Len(parser.stack) > 1
    /\ Top.fn = "expression"
    /\ Move.kind = "return"
    /\ parser.stack[Len(parser.stack) - 1].fn = "iteration_stmt"
    /\ parser.stack[Len(parser.stack) - 1].stage = slot

\* the lookahead was a bare ';' when the running grammar function was called
EnteredOnSemicolon ==
    LET t == tokens[Top.g_entry + 1] IN t.type = SYMBOL /\ t.lexeme = ";"

\* a syntax error detected on the lookahead the running function was called
\* with is in the error list the function returns with
ErrorAtEntry ==
    \E k \in 1..Len(Move.r.ps.errors) : Move.r.ps.errors[k].g_at = Top.g_entry

\* C25: an empty sub-expression of a for header is never accepted silently:
\* when iteration_stmt calls expression() for one of its three slots and the
\* lookahead is a bare ';', the call returns with a syntax error recorded on
\* that ';'.
C25_EmptyForHeaderIsAnError ==
    \A slot \in 1..3 :
        (HeaderExpressionReturns(slot) /\ EnteredOnSemicolon) => ErrorAtEntry

\* C25's case: the Expression of the third slot of a for header, called on a
\* bare ';', returns with the error
C25_Witness ==
    /\ HeaderExpressionReturns(3)
    /\ EnteredOnSemicolon
    /\ ErrorAtEntry

\* the index of the EOF token
EOFIndex == Len(tokens) - 1

\* a call of Parser.error in the current state of the parser: one message
\* more, the earlier ones untouched, and the lookahead one token further
\* unless it is EOF
ErrorCallPostcondition ==
    LET ps == PsOf(parser)
        after == error(ps, Msg("m"))
    IN /\ Len(after.errors) = Len(ps.errors) + 1
       /\ SubSeq(after.errors, 1, Len(ps.errors)) = ps.errors
       /\ after.errors[Len(after.errors)].msg = "m"
       /\ after.i = IF ps.i = EOFIndex THEN ps.i ELSE ps.i + 1

\* the indexes of the tokens that calls of Parser.error skipped
SkippedByError ==
    {parser.errors[k].g_at : k \in 1..Len(parser.errors)} \ {EOFIndex}

\* the first index from j on where a ';' or EOF stands
RECURSIVE SemicolonFrom(_)
SemicolonFrom(j) ==
    IF j >= EOFIndex \/ (tokens[j + 1].type = SYMBOL /\ tokens[j + 1].lexeme = ";")
    THEN j
    ELSE SemicolonFrom(j + 1)

\* the indexes of the tokens skipped by the synchronising loop that follows the
\* error of var_declaration_prime
SkippedBySync ==
    UNION {(e.g_at + 1)..(SemicolonFrom(e.g_at + 1) - 1) :
              e \in {parser.errors[k] : k \in {j \in 1..Len(parser.errors) :
                        /\ parser.errors[j].msg = "Expected ; or [ in Var-declaration-prime"
                        /\ parser.errors[j].g_at # EOFIndex}}}

\* the labels that the tokens before the lookahead whose index is in S have
\* as leaves, in order
LeafLabelsOf(S) ==
    LET InS(j) == j \in S
        kept == SelectSeq([j \in 1..parser.i |-> j - 1], InS)
    IN [k \in 1..Len(kept) |-> TokenNode(tokens[kept[k] + 1]).label]

\* the token leaves of the nodes under construction in the frames lo..hi of
\* the call stack, from the outer to the inner ones
RECURSIVE LeavesOfFrames(_, _)
LeavesOfFrames(lo, hi) ==
    IF lo > hi THEN <<>>
    ELSE IF lo = hi THEN Leaves(parser.stack[lo].node)
    ELSE LET mid == (lo + hi) \div 2
         IN LeavesOfFrames(lo, mid) \o LeavesOfFrames(mid + 1, hi)

\* the token leaves built so far: those of the frames while parse() runs,
\* those of the tree once it has returned
LeavesSoFar ==
    IF parser.state = "parsing" THEN LeavesOfFrames(1, Len(parser.stack))
    ELSE Leaves(parser.tree)

\* every message belongs to one call: two messages are never recorded on the
\* same token before EOF, and a message on EOF leaves the lookahead on EOF
OneMessageOneToken ==
    /\ \A j \in 1..Len(parser.errors), k \in 1..Len(parser.errors) :
           (j < k /\ parser.errors[j].g_at # EOFIndex) =>
               parser.errors[j].g_at < parser.errors[k].g_at
    /\ \A k \in 1..Len(parser.errors) :
           /\ parser.errors[k].g_at < parser.i \/ parser.errors[k].g_at = EOFIndex
           /\ parser.errors[k].g_at = EOFIndex => parser.i = EOFIndex

\* C30: each call of Parser.error appends exactly one message and moves the
\* lookahead by exactly one token, or not at all when the lookahead is EOF,
\* and leaves the tree alone: the token leaves built so far are exactly the
\* tokens before the lookahead that no error call and no synchronising loop
\* skipped, one token skipped per message recorded before EOF.
C30_ErrorSkipsOneToken ==
    parser.state \in {"parsing", "parsed"} =>
        /\ ErrorCallPostcondition
        /\ OneMessageOneToken
        /\ LeavesSoFar = LeafLabelsOf((0..(parser.i - 1)) \ (SkippedByError \cup SkippedBySync))

\* a finished parse with an error before EOF that skipped one token, leaves
\* before and after the skipped token, and an error at EOF
C30_Witness ==
    /\ parser.state = "parsed"
    /\ parser.i = EOFIndex
    /\ \E j \in 1..Len(parser.errors), k \in 1..Len(parser.errors) :
           /\ parser.errors[j].g_at \in 1..(EOFIndex - 2)
           /\ parser.errors[k].g_at = EOFIndex
           /\ SkippedBySync = {}
           /\ Len(Leaves(parser.tree)) = EOFIndex - Cardinality(SkippedByError)
           /\ Len(Leaves(parser.tree)) >= 2

\* the step in which var_declaration_prime returns to declaration_prime
VarDeclarationPrimeReturns ==
    /\ parser.state = "parsing"
    /\ Top.fn = "var_declaration_prime"
    /\ parser'.state = "parsing"
    /\ Len(parser'.stack) = Len(parser.stack) - 1

\* the lookahead on entry is none of '(' '[' ';'
NeitherParenNorBracketNorSemicolon ==
    LET t == tokens[parser.i + 1]
    IN ~(t.type = SYMBOL /\ t.lexeme \in {"(", "[", ";"})

\* what the recovery of var_declaration_prime leaves behind: one more message,
\* recorded on the lookahead of the entry; a Var-declaration-prime node that
\* holds the next ';' as its only leaf, with the lookahead right after it, or
\* no child at all, with the lookahead on EOF
Synchronised ==
    LET entry == parser.i
        semi == SemicolonFrom(IF entry = EOFIndex THEN entry ELSE entry + 1)
        caller == parser'.stack[Len(parser'.stack)].node
        node == caller.children[Len(caller.children)]
        e == parser'.errors[Len(parser'.errors)]
    IN /\ Len(parser'.errors) = Len(parser.errors) + 1
       /\ SubSeq(parser'.errors, 1, Len(parser.errors)) = parser.errors
       /\ e.msg = "Expected ; or [ in Var-declaration-prime"
       /\ e.g_at = entry
       /\ node.label = <<"Var-declaration-prime">>
       /\ IF semi < EOFIndex
          THEN /\ node.children = <<TokenNode(tokens[semi + 1])>>
               /\ tokens[semi + 1].lexeme = ";"
               /\ parser'.i = semi + 1
          ELSE /\ node.children = <<>>
               /\ parser'.i = EOFIndex

\* C31: when var_declaration_prime is entered on a lookahead that is none of
\* '(' '[' ';', it records one error and skips to the next ';' or to EOF: a
\* ';' that is found becomes the only leaf of the Var-declaration-prime node
\* and the lookahead ends right after it, otherwise the node has no children
\* and the lookahead is EOF.
C31_VarDeclarationPrimeSynchronises ==
    [][(VarDeclarationPrimeReturns /\ NeitherParenNorBracketNorSemicolon) => Synchronised]_vars

\* var_declaration_prime has returned after skipping two tokens and more to
\* a ';', which is the leaf of its node
C31_Witness ==
    /\ parser.state = "parsing"
    /\ Top.fn = "declaration_prime"
    /\ Top.node.children # <<>>
    /\ LET node == Top.node.children[Len(Top.node.children)]
           e == parser.errors[Len(parser.errors)]
       IN /\ parser.errors # <<>>
          /\ e.msg = "Expected ; or [ in Var-declaration-prime"
          /\ node.label = <<"Var-declaration-prime">>
          /\ node.children = <<TokenNode(tokens[parser.i])>>
          /\ parser.i >= e.g_at + 3

\* the cursor is on a token of the list, and so was every value it has had:
\* it started at 0 and each move took it one token further, never past EOF
CursorInRange ==
    /\ tokens[Len(tokens)].type = EOF
    /\ 0 <= parser.i /\ parser.i <= EOFIndex
    /\ (parser.i + 1) \in DOMAIN tokens
    /\ parser.g_trace[1] = 0
    /\ parser.g_trace[Len(parser.g_trace)] = parser.i
    /\ \A k \in 1..(Len(parser.g_trace) - 1) : parser.g_trace[k + 1] = parser.g_trace[k] + 1

CursorNeverDecreases == parser'.i >= parser.i

\* C37: for every token list that ends with EOF, in every state of parse()
\* the index i is between 0 and the index of the EOF token, so that the
\* lookahead cur() is defined, and i never decreases.
C37_ParserCursorInvariant == []CursorInRange /\ [][CursorNeverDecreases]_vars

\* parse() has returned with the cursor on EOF after four tokens and more,
\* one of them skipped by an error, and an error recorded on EOF
C37_Witness ==
    /\ parser.state = "parsed"
    /\ parser.i = EOFIndex
    /\ EOFIndex >= 4
    /\ \E j \in 1..Len(parser.errors), k \in 1..Len(parser.errors) :
           /\ parser.errors[j].g_at < EOFIndex
           /\ parser.errors[k].g_at = EOFIndex

\* s is a subsequence of t: its elements occur in t in the same order, each
\* matched with an element of its own
RECURSIVE IsSubsequence(_, _)
IsSubsequence(s, t) ==
    IF s = <<>> THEN TRUE
    ELSE IF t = <<>> THEN FALSE
    ELSE IF Head(s) = Head(t) THEN IsSubsequence(Tail(s), Tail(t))
    ELSE IsSubsequence(s, Tail(t))

\* the leaf labels of the tokens before the cursor, in order
ConsumedLabels == [k \in 1..parser.i |-> TokenNode(tokens[k]).label]

\* C38: the token leaves of the tree that parse() returns are, from left to
\* right, a subsequence of the tokens before the final position of the
\* cursor: every token is attached at most once, the tokens that error
\* recovery skipped are not attached (the leaves are exactly the other ones),
\* and EOF is never attached.
C38_LeavesAreConsumedTokensInOrder ==
    Parsed =>
        LET leaves == Leaves(parser.tree)
            skipped == SkippedByError \cup SkippedBySync
        IN /\ IsSubsequence(leaves, ConsumedLabels)
           /\ Len(leaves) <= parser.i
           /\ skipped \subseteq 0..(parser.i - 1)
           /\ Len(leaves) = parser.i - Cardinality(skipped)
           /\ leaves = LeafLabelsOf((0..(parser.i - 1)) \ skipped)
           /\ \A k \in 1..Len(leaves) : leaves[k][2] # EOF
           /\ TokenNode(tokens[Len(tokens)]).label \notin {leaves[k] : k \in 1..Len(leaves)}

\* parse() has returned a tree with leaves after an error call and the
\* synchronising loop have both skipped tokens
C38_Witness ==
    /\ Parsed
    /\ parser.i = EOFIndex
    /\ SkippedByError # {}
    /\ SkippedBySync # {}
    /\ Len(Leaves(parser.tree)) >= 3
    /\ Len(Leaves(parser.tree)) < EOFIndex

\* C39: a parse that returns with an empty list of syntax errors has
\* consumed the whole input: the lookahead is the EOF token and the tokens
\* are a program of the grammar; input left over after the top-level
\* Declaration-list is never silently ignored.
C39_ErrorFreeParseConsumesAll ==
    (parser.state \in {"parsed", "written"} /\ parser.errors = <<>>) =>
        /\ parser.i = EOFIndex
        /\ ValidProgram

-----------------------------------------------------------------------------
(* Properties of the two scanners on the same source text *)

\* the end-of-input token of a token stream has kind EOF, the lexeme "EOF",
\* and on a non-empty source the line of the final byte of the source
IsEndOfInputToken(t) ==
    /\ t.type = EOF
    /\ t.lexeme = <<"E", "O", "F">>
    /\ Length > 0 => t.line = LineOf(Length - 1)

\* C18: the end-of-input token handed to consumers has kind EOF, lexeme "EOF"
\* and the line of the final byte of the source (1 plus the number of
\* newlines strictly before that byte), for the tokens of Scanner and for the
\* tokens of scan().
C18_EOFTokenOnLineOfFinalByte ==
    /\ tok.type = EOF => IsEndOfInputToken(tok)
    /\ tokens # <<>> => IsEndOfInputToken(tokens[Len(tokens)])

\* the keyword set of the specification: if, else, void, int, for, break, return
ClosedKeywordSet ==
    { <<"i","f">>, <<"e","l","s","e">>, <<"v","o","i","d">>, <<"i","n","t">>,
      <<"f","o","r">>, <<"b","r","e","a","k">>, <<"r","e","t","u","r","n">> }

\* a lexeme of the shape [A-Za-z_][A-Za-z0-9_]*
IdentifierShaped(lexeme) ==
    /\ lexeme # <<>>
    /\ isalpha(lexeme[1]) \/ lexeme[1] = "_"
    /\ \A i \in 1..Len(lexeme) : IsIdChar(lexeme[i])

\* the token t, cut from the source, has the kind its lexeme calls for
ClassifiedByKeywordSet(t) ==
    /\ IdentifierShaped(t.lexeme) =>
           t.type = (IF t.lexeme \in ClosedKeywordSet THEN KEYWORD ELSE ID)
    /\ t.type = KEYWORD => t.lexeme \in ClosedKeywordSet
    /\ t.type = ID => IdentifierShaped(t.lexeme) /\ t.lexeme \notin ClosedKeywordSet

\* C19: every identifier-shaped run that a scanner turns into a token is a
\* KEYWORD token if and only if it is one of if, else, void, int, for, break,
\* return, and an ID token otherwise; no KEYWORD token has a lexeme outside
\* that set and no ID token one inside it.  For the tokens returned by
\* Scanner.get_next_token and for the tokens of scan().
C19_KeywordIffInKeywordSet ==
    /\ \A k \in 1..Len(returned) :
           returned[k].type # EOF => ClassifiedByKeywordSet(returned[k])
    /\ \A k \in 1..Len(tokens) :
           tokens[k].type # EOF => ClassifiedByKeywordSet(tokens[k])

\* C19's case: both scanners have scanned a source and each has produced a
\* KEYWORD token and an ID token
C19_Witness ==
    /\ pc = "done"
    /\ \E j \in 1..Len(returned), k \in 1..Len(returned) :
           returned[j].type = KEYWORD /\ returned[k].type = ID
    /\ \E j \in 1..Len(tokens), k \in 1..Len(tokens) :
           tokens[j].type = KEYWORD /\ tokens[k].type = ID

\* the (kind, lexeme, line) of the tokens of a stream that come before EOF
BeforeEOF(ts) ==
    LET body == SelectSeq(ts, LAMBDA t : t.type # EOF)
    IN [k \in 1..Len(body) |-> <<body[k].type, body[k].lexeme, body[k].line>>]

\* C23: for a source without a lexical error, the tokens that scan() hands to
\* the Parser are, kind by kind, lexeme by lexeme and line by line, the tokens
\* that Scanner.get_next_token returned before EOF, line comments included.
C23_ParserConsumesScannerTokens ==
    (tokens # <<>> /\ scanner.lex_errors = <<>>) => BeforeEOF(tokens) = BeforeEOF(returned)

====
